---------------------------- MODULE Spec2Model ----------------------------
(***************************************************************************)
(* Incremental scoring substrate of the SLS SAT engine: Formula with its   *)
(* occurrence index (src/formula.py), Assignment (src/formula.py),         *)
(* Falselist, DiffScores and Scores (src/solver/utils.py).                 *)
(*                                                                         *)
(* Conventions.  Clause indices are the source's (0-based).  Positions     *)
(* inside a clause, inside Falselist.lst and inside an occurrence list are *)
(* TLA+ sequence positions (1-based); Falselist.mapping keeps the source's *)
(* 0-based index, so lst[mapping[x] + 1] is the source's lst[mapping[x]].  *)
(* A Python exception is the field exc of the threaded object state: once  *)
(* it is set every later statement is skipped.                             *)
(***************************************************************************)
EXTENDS Integers, Sequences, FiniteSets, TLC

\* ------------------------------------------------------------------ bounds
\* variables 1..NumVars; formulas of at most MaxClauses clauses holding at
\* most MaxLits literals in all
NumVars == 2
MaxClauses == 2
MaxLits == 2

\* ------------------------------------------------------------- python values
\* crit_var.append(None): a value that is no variable
None == -1
NoExc == "none"

abs(x) == IF x < 0 THEN -x ELSE x

\* a Python list is a function over 0..len-1; list.append(x)
PyAppend(list, x) ==
    [k \in 0..Cardinality(DOMAIN list) |->
        IF k = Cardinality(DOMAIN list) THEN x ELSE list[k]]

Max(S) == CHOOSE m \in S : \A x \in S : x <= m

\* ----------------------------------------------------------------- Formula
Lits == {l \in (-NumVars)..NumVars : l # 0}

\* list[i] of a list of length len: a negative i counts from the end
PyIndex(i, len) == IF i < 0 THEN i + len ELSE i

\* list[i] raises IndexError
IndexError(i, len) == PyIndex(i, len) < 0 \/ PyIndex(i, len) >= len

\* mutant: the clause is recorded under the literal of opposite sign
AppendClauseOccs_negated(occ, num_vars, clause, clause_idx, j) ==
    IF Len(clause) = 0 THEN occ
    ELSE [occ EXCEPT ![num_vars - clause[1]] = Append(@, clause_idx)]

RECURSIVE AppendClauseOccs(_, _, _, _, _)
\* for lit in clause: self.occurrences[self.num_vars + lit].append(clause_idx)
\* (a literal whose index raises IndexError ends the constructor, see
\* OccurrencesIndexError; nothing is appended for it here)
AppendClauseOccs(occ, num_vars, clause, clause_idx, j) ==
    IF j > Len(clause) THEN occ
    ELSE AppendClauseOccs(
            IF IndexError(num_vars + clause[j], 2 * num_vars + 1) THEN occ
            ELSE [occ EXCEPT ![PyIndex(num_vars + clause[j], 2 * num_vars + 1)]
                                = Append(@, clause_idx)],
            num_vars, clause, clause_idx, j + 1)

RECURSIVE BuildOccurrences(_, _, _, _)
\* for clause_idx, clause in enumerate(self.clauses): ...
BuildOccurrences(occ, num_vars, clauses, clause_idx) ==
    IF clause_idx \notin DOMAIN clauses THEN occ
    ELSE BuildOccurrences(
            AppendClauseOccs(occ, num_vars, clauses[clause_idx], clause_idx, 1),
            num_vars, clauses, clause_idx + 1)

\* self.occurrences[self.num_vars + lit] raises IndexError for some literal
OccurrencesIndexError(clauses, num_vars) ==
    \E c \in DOMAIN clauses : \E j \in DOMAIN clauses[c] :
        IndexError(num_vars + clauses[c][j], 2 * num_vars + 1)

\* Formula(clauses = ..., num_vars = ..., sat_assignment = ...): the clauses
\* are taken verbatim; clauses is a function over 0..M-1.  The end of
\* __init__, shared by both ways of construction: the occurrence index,
\* max_occs and ratio (exc is the exception it ends with).
Formula_init(clauses, num_vars) ==
    LET occurrences == BuildOccurrences([i \in 0..(num_vars * 2) |-> <<>>],
                                        num_vars, clauses, 0)
    IN  [clauses |-> clauses,
         num_clauses |-> Cardinality(DOMAIN clauses),
         num_vars |-> num_vars,
         occurrences |-> occurrences,
         max_occs |-> Max({0} \cup {Len(occurrences[i]) : i \in DOMAIN occurrences}),
         exc |-> IF OccurrencesIndexError(clauses, num_vars) THEN "IndexError"
                 ELSE IF num_vars = 0 THEN "ZeroDivisionError"
                 ELSE NoExc]

get_occurrences(F, literal) == F.occurrences[F.num_vars + literal]

\* -------------------------------------------------------------- Assignment
\* atoms[v] is the source's atoms[v-1]
get_value(assignment, var_index) == assignment.atoms[var_index]

is_true(assignment, literal) ==
    LET t == get_value(assignment, abs(literal))
    IN  IF literal > 0 THEN t ELSE ~t

RECURSIVE atoms_from_integer(_)
\* while n > 0: atoms.append(n % 2 == 1); n //= 2
atoms_from_integer(number) ==
    IF number > 0
    THEN <<number % 2 = 1>> \o atoms_from_integer(number \div 2)
    ELSE <<>>

\* Assignment(number, num_vars): atoms += [False] * (num_vars - len(atoms))
Assignment_init(number, num_vars) ==
    LET atoms == atoms_from_integer(number)
    IN  [atoms |-> IF num_vars > Len(atoms)
                   THEN atoms \o [i \in 1..(num_vars - Len(atoms)) |-> FALSE]
                   ELSE atoms,
         num_vars |-> num_vars]

\* mutant: atoms[var_index] is negated, the atom of the next variable
Assignment_flip_next(assignment, var_index) ==
    [assignment EXCEPT !.atoms[(var_index % Len(assignment.atoms)) + 1] = ~@]

Assignment_flip(assignment, var_index) ==
    [assignment EXCEPT !.atoms[var_index] = ~@]

\* --------------------------------------------------------------- Falselist
Falselist_init == [lst |-> <<>>, mapping |-> <<>>]

Pop(lst) == SubSeq(lst, 1, Len(lst) - 1)

\* mutant: the last element is popped without the swap into elem's place
Falselist_remove_last(fl, elem) ==
    [lst |-> Pop(fl.lst),
     mapping |-> [x \in (DOMAIN fl.mapping) \ {elem} |-> fl.mapping[x]]]

\* mutant: the element moved into elem's place keeps its old position
Falselist_remove_stale_mapping(fl, elem) ==
    LET idx == fl.mapping[elem]
        last == fl.lst[Len(fl.lst)]
    IN  [lst |-> IF idx = Len(fl.lst) - 1 THEN Pop(fl.lst)
                 ELSE [Pop(fl.lst) EXCEPT ![idx + 1] = last],
         mapping |-> [x \in (DOMAIN fl.mapping) \ {elem} |-> fl.mapping[x]]]

\* assert elem in self.mapping
Falselist_remove_assert(fl, elem) == elem \in DOMAIN fl.mapping

Falselist_remove(fl, elem) ==
    LET idx == fl.mapping[elem]
        tmp == fl.lst[idx + 1]
        last == fl.lst[Len(fl.lst)]
        lst1 == IF idx = Len(fl.lst) - 1
                THEN Pop(fl.lst)
                ELSE [Pop(fl.lst) EXCEPT ![idx + 1] = last]
        map1 == IF idx = Len(fl.lst) - 1
                THEN fl.mapping
                ELSE [fl.mapping EXCEPT ![last] = idx]
    IN  [lst |-> lst1,
         mapping |-> [x \in (DOMAIN map1) \ {tmp} |-> map1[x]]]

\* mutant: the position of the new element is not recorded
Falselist_add_no_mapping(fl, elem) == [fl EXCEPT !.lst = Append(@, elem)]

Falselist_add(fl, elem) ==
    [lst |-> Append(fl.lst, elem),
     mapping |-> [x \in (DOMAIN fl.mapping) \cup {elem} |->
                     IF x = elem THEN Len(fl.lst) ELSE fl.mapping[x]]]

\* ------------------------------------------------- threaded object state
\* o = [assignment, falselist, sb, exc, trace]: the three objects a
\* scoreboard method mutates, the pending exception, and the scoreboard's
\* score/bucket state after each completed score primitive.
Raise(o, e) == [o EXCEPT !.exc = e]

remove(o, elem) ==
    IF o.exc # NoExc THEN o
    ELSE IF ~Falselist_remove_assert(o.falselist, elem) THEN Raise(o, "AssertionError")
    ELSE [o EXCEPT !.falselist = Falselist_remove(@, elem)]

add(o, elem) ==
    IF o.exc # NoExc THEN o
    ELSE [o EXCEPT !.falselist = Falselist_add(@, elem)]

set_crit_var(o, clause_idx, v) ==
    IF o.exc # NoExc THEN o ELSE [o EXCEPT !.sb.crit_var[clause_idx] = v]

\* mutant: the final `num_true_lit[clause_idx] -= 1` is missing
add_num_true_lit_up_only(o, clause_idx, d) ==
    IF o.exc # NoExc \/ d < 0 THEN o
    ELSE [o EXCEPT !.sb.num_true_lit[clause_idx] = @ + d]

add_num_true_lit(o, clause_idx, d) ==
    IF o.exc # NoExc THEN o ELSE [o EXCEPT !.sb.num_true_lit[clause_idx] = @ + d]

\* buckets[key].add(variable), the bucket allocated on demand
BucketAdd(buckets, key, variable) ==
    IF key \notin DOMAIN buckets
    THEN [k \in (DOMAIN buckets) \cup {key} |->
             IF k = key THEN {variable} ELSE buckets[k]]
    ELSE [buckets EXCEPT ![key] = @ \cup {variable}]

\* ------------------------------------------------------------- DiffScores
DiffLog(o) ==
    [o EXCEPT !.trace = Append(@, [score |-> o.sb.score,
                                   buckets |-> o.sb.buckets,
                                   best_score |-> o.sb.best_score])]

get_score(sb, var) == sb.score[var]

\* mutant: the variable is not removed from its old bucket
increment_score_keep_old(o, variable) ==
    IF o.exc # NoExc THEN o
    ELSE LET old == o.sb.score[variable]
             best == IF o.sb.best_score = old
                     THEN o.sb.best_score + 1 ELSE o.sb.best_score
         IN  DiffLog([o EXCEPT !.sb.best_score = best,
                               !.sb.score[variable] = old + 1,
                               !.sb.buckets = BucketAdd(@, old + 1, variable)])

increment_score(o, variable) ==
    IF o.exc # NoExc THEN o
    ELSE IF ~(variable > 0) THEN Raise(o, "AssertionError")
    ELSE IF variable \notin DOMAIN o.sb.score
            \/ variable \notin o.sb.buckets[o.sb.score[variable]]
         THEN Raise(o, "KeyError")
    ELSE LET old == o.sb.score[variable]
             best == IF o.sb.best_score = old
                     THEN o.sb.best_score + 1 ELSE o.sb.best_score
             removed == [o.sb.buckets EXCEPT ![old] = @ \ {variable}]
         IN  DiffLog([o EXCEPT !.sb.best_score = best,
                               !.sb.score[variable] = old + 1,
                               !.sb.buckets = BucketAdd(removed, old + 1, variable)])

\* mutant: best_score is lowered although the old bucket is not empty
decrement_score_eager(o, variable) ==
    IF o.exc # NoExc THEN o
    ELSE LET old == o.sb.score[variable]
             removed == [o.sb.buckets EXCEPT ![old] = @ \ {variable}]
             best == IF o.sb.best_score = old
                     THEN o.sb.best_score - 1 ELSE o.sb.best_score
         IN  DiffLog([o EXCEPT !.sb.best_score = best,
                               !.sb.score[variable] = old - 1,
                               !.sb.buckets = BucketAdd(removed, old - 1, variable)])

decrement_score(o, variable) ==
    IF o.exc # NoExc THEN o
    ELSE IF ~(variable > 0) THEN Raise(o, "AssertionError")
    ELSE IF variable \notin DOMAIN o.sb.score
            \/ variable \notin o.sb.buckets[o.sb.score[variable]]
         THEN Raise(o, "KeyError")
    ELSE LET old == o.sb.score[variable]
             removed == [o.sb.buckets EXCEPT ![old] = @ \ {variable}]
             best == IF o.sb.best_score = old /\ removed[old] = {}
                     THEN o.sb.best_score - 1 ELSE o.sb.best_score
         IN  DiffLog([o EXCEPT !.sb.best_score = best,
                               !.sb.score[variable] = old - 1,
                               !.sb.buckets = BucketAdd(removed, old - 1, variable)])

RECURSIVE DiffCountTrue(_, _, _, _)
\* for lit in clause: if assignment.is_true(lit): crit_var = abs(lit);
\*                                                num_true_lit[-1] += 1
\* acc = [n |-> true literals so far, crit_var |-> the local crit_var]
DiffCountTrue(assignment, clause, j, acc) ==
    IF j > Len(clause) THEN acc
    ELSE DiffCountTrue(assignment, clause, j + 1,
            IF is_true(assignment, clause[j])
            THEN [n |-> acc.n + 1, crit_var |-> abs(clause[j])]
            ELSE acc)

RECURSIVE DiffIncrementAll(_, _, _)
\* for lit in clause: self.increment_score(abs(lit))
DiffIncrementAll(o, clause, j) ==
    IF j > Len(clause) THEN o
    ELSE DiffIncrementAll(increment_score(o, abs(clause[j])), clause, j + 1)

RECURSIVE DiffDecrementAll(_, _, _)
\* for lit in formula.clauses[clause_idx]: self.decrement_score(abs(lit))
DiffDecrementAll(o, clause, j) ==
    IF j > Len(clause) THEN o
    ELSE DiffDecrementAll(decrement_score(o, abs(clause[j])), clause, j + 1)

\* mutant: a clause with one true literal does not lower the score of its
\* critical variable
DiffInitClause_no_break(o, F, clause_idx) ==
    LET clause == F.clauses[clause_idx]
        cnt == DiffCountTrue(o.assignment, clause, 1, [n |-> 0, crit_var |-> 0])
        o1 == [o EXCEPT !.sb.crit_var = PyAppend(@, None),
                        !.sb.num_true_lit = PyAppend(@, cnt.n)]
    IN  IF cnt.n = 1
        THEN set_crit_var(o1, clause_idx, cnt.crit_var)
        ELSE IF cnt.n = 0
        THEN DiffIncrementAll(add(o1, clause_idx), clause, 1)
        ELSE o1

\* one iteration of `for clause_idx, clause in enumerate(formula.clauses)`
DiffInitClause(o, F, clause_idx) ==
    LET clause == F.clauses[clause_idx]
        cnt == DiffCountTrue(o.assignment, clause, 1, [n |-> 0, crit_var |-> 0])
        o1 == [o EXCEPT !.sb.crit_var = PyAppend(@, None),
                        !.sb.num_true_lit = PyAppend(@, cnt.n)]
    IN  IF cnt.n = 1
        THEN decrement_score(set_crit_var(o1, clause_idx, cnt.crit_var), cnt.crit_var)
        ELSE IF cnt.n = 0
        THEN DiffIncrementAll(add(o1, clause_idx), clause, 1)
        ELSE o1

RECURSIVE DiffInitLoop(_, _, _)
DiffInitLoop(o, F, clause_idx) ==
    IF clause_idx \notin DOMAIN F.clauses \/ o.exc # NoExc THEN o
    ELSE DiffInitLoop(DiffInitClause(o, F, clause_idx), F, clause_idx + 1)

\* DiffScores(formula, assignment, falselist)
DiffScores_init(F, assignment, falselist) ==
    LET sb0 == [max_score |-> F.max_occs,
                crit_var |-> <<>>,
                num_true_lit |-> <<>>,
                score |-> [v \in 1..F.num_vars |-> 0],
                best_score |-> 0,
                buckets |-> [k \in (-F.max_occs)..F.max_occs |->
                                IF k = 0 THEN 1..F.num_vars ELSE {}]]
    IN  DiffInitLoop([assignment |-> assignment, falselist |-> falselist,
                      sb |-> sb0, exc |-> NoExc, trace |-> <<>>], F, 0)

DiffScores_get_best_bucket(sb) == <<sb.best_score, sb.buckets[sb.best_score]>>

RECURSIVE DiffMakeCritical_no_crit(_, _, _, _)
\* mutant: the score is decremented but crit_var[clause_idx] is not set
DiffMakeCritical_no_crit(o, clause, clause_idx, j) ==
    IF j > Len(clause) THEN o
    ELSE DiffMakeCritical_no_crit(
            IF o.exc = NoExc /\ is_true(o.assignment, clause[j])
            THEN decrement_score(o, abs(clause[j]))
            ELSE o,
            clause, clause_idx, j + 1)

RECURSIVE DiffMakeCritical_every_literal(_, _, _, _)
\* mutant: the score of every literal's variable is lowered, true or not
DiffMakeCritical_every_literal(o, clause, clause_idx, j) ==
    IF j > Len(clause) THEN o
    ELSE DiffMakeCritical_every_literal(
            IF o.exc = NoExc
            THEN decrement_score(
                    IF is_true(o.assignment, clause[j])
                    THEN set_crit_var(o, clause_idx, abs(clause[j])) ELSE o,
                    abs(clause[j]))
            ELSE o,
            clause, clause_idx, j + 1)

RECURSIVE DiffMakeCritical(_, _, _, _)
\* for lit in formula.clauses[clause_idx]:
\*     if assignment.is_true(lit): crit_var[clause_idx] = abs(lit);
\*                                 self.decrement_score(abs(lit))
DiffMakeCritical(o, clause, clause_idx, j) ==
    IF j > Len(clause) THEN o
    ELSE DiffMakeCritical(
            IF o.exc = NoExc /\ is_true(o.assignment, clause[j])
            THEN decrement_score(set_crit_var(o, clause_idx, abs(clause[j])),
                                 abs(clause[j]))
            ELSE o,
            clause, clause_idx, j + 1)

\* mutant: the extra decrement_score(variable) of a clause that becomes
\* satisfied is missing
DiffSatClause_once(o, F, variable, clause_idx) ==
    LET n == o.sb.num_true_lit[clause_idx]
        o1 == IF n = 0
              THEN set_crit_var(
                      DiffDecrementAll(remove(o, clause_idx), F.clauses[clause_idx], 1),
                      clause_idx, variable)
              ELSE IF n = 1
              THEN increment_score(o, o.sb.crit_var[clause_idx])
              ELSE o
    IN  add_num_true_lit(o1, clause_idx, 1)

\* mutant: the flipped variable is decremented once more for a clause that
\* becomes satisfied
DiffSatClause_thrice(o, F, variable, clause_idx) ==
    LET n == o.sb.num_true_lit[clause_idx]
        o1 == IF n = 0
              THEN set_crit_var(
                      DiffDecrementAll(
                          decrement_score(
                              decrement_score(remove(o, clause_idx), variable),
                              variable),
                          F.clauses[clause_idx], 1),
                      clause_idx, variable)
              ELSE IF n = 1
              THEN increment_score(o, o.sb.crit_var[clause_idx])
              ELSE o
    IN  add_num_true_lit(o1, clause_idx, 1)

\* body of `for clause_idx in formula.get_occurrences(satisfying_literal)`
DiffSatClause(o, F, variable, clause_idx) ==
    LET n == o.sb.num_true_lit[clause_idx]
        o1 == IF n = 0
              THEN set_crit_var(
                      DiffDecrementAll(
                          decrement_score(remove(o, clause_idx), variable),
                          F.clauses[clause_idx], 1),
                      clause_idx, variable)
              ELSE IF n = 1
              THEN increment_score(o, o.sb.crit_var[clause_idx])
              ELSE o
    IN  add_num_true_lit(o1, clause_idx, 1)

\* mutant: the extra increment_score(variable) of a clause that becomes
\* unsatisfied is missing
DiffUnsatClause_once(o, F, variable, clause_idx) ==
    LET n == o.sb.num_true_lit[clause_idx]
        o1 == IF n = 1
              THEN set_crit_var(
                      DiffIncrementAll(add(o, clause_idx), F.clauses[clause_idx], 1),
                      clause_idx, variable)
              ELSE IF n = 2
              THEN DiffMakeCritical(o, F.clauses[clause_idx], clause_idx, 1)
              ELSE o
    IN  add_num_true_lit(o1, clause_idx, -1)

\* body of `for clause_idx in formula.get_occurrences(falsifying_literal)`
DiffUnsatClause(o, F, variable, clause_idx) ==
    LET n == o.sb.num_true_lit[clause_idx]
        o1 == IF n = 1
              THEN set_crit_var(
                      DiffIncrementAll(
                          increment_score(add(o, clause_idx), variable),
                          F.clauses[clause_idx], 1),
                      clause_idx, variable)
              ELSE IF n = 2
              THEN DiffMakeCritical(o, F.clauses[clause_idx], clause_idx, 1)
              ELSE o
    IN  add_num_true_lit(o1, clause_idx, -1)

RECURSIVE DiffSatLoop(_, _, _, _, _)
DiffSatLoop(o, F, variable, occ, i) ==
    IF i > Len(occ) \/ o.exc # NoExc THEN o
    ELSE DiffSatLoop(DiffSatClause(o, F, variable, occ[i]), F, variable, occ, i + 1)

RECURSIVE DiffUnsatLoop(_, _, _, _, _)
DiffUnsatLoop(o, F, variable, occ, i) ==
    IF i > Len(occ) \/ o.exc # NoExc THEN o
    ELSE DiffUnsatLoop(DiffUnsatClause(o, F, variable, occ[i]), F, variable, occ, i + 1)

\* DiffScores.flip(variable, formula, assignment, falselist); o.trace restarts
DiffScores_flip(o, variable, F) ==
    LET o1 == [o EXCEPT !.assignment = Assignment_flip(@, variable), !.trace = <<>>]
        satisfying_literal ==
            IF is_true(o1.assignment, variable) THEN variable ELSE -variable
        falsifying_literal ==
            IF is_true(o1.assignment, variable) THEN -variable ELSE variable
        o2 == DiffSatLoop(o1, F, variable, get_occurrences(F, satisfying_literal), 1)
    IN  DiffUnsatLoop(o2, F, variable, get_occurrences(F, falsifying_literal), 1)

RECURSIVE CountTrueLits(_, _, _)
\* true_lits += 1 if assignment.is_true(lit) else 0
CountTrueLits(assignment, clause, j) ==
    IF j > Len(clause) THEN 0
    ELSE (IF is_true(assignment, clause[j]) THEN 1 ELSE 0)
         + CountTrueLits(assignment, clause, j + 1)

RECURSIVE CountOcc(_, _, _, _)
\* the number of positions i of occ with P[occ[i]], P a set of clause indices
CountOcc(occ, i, P, acc) ==
    IF i > Len(occ) THEN acc
    ELSE CountOcc(occ, i + 1, P, IF occ[i] \in P THEN acc + 1 ELSE acc)

\* DiffScores.self_test(formula, assignment)
DiffScores_self_test(sb, F, assignment) ==
    /\ \A clause_idx \in DOMAIN F.clauses :
          CountTrueLits(assignment, F.clauses[clause_idx], 1)
              = sb.num_true_lit[clause_idx]
    /\ \A var \in 1..F.num_vars :
          LET sat_lit == IF get_value(assignment, var) THEN var ELSE -var
              breaks == CountOcc(get_occurrences(F, sat_lit), 1,
                            {c \in DOMAIN F.clauses :
                                sb.num_true_lit[c] = 1 /\ sb.crit_var[c] = var}, 0)
              makes == CountOcc(get_occurrences(F, -sat_lit), 1,
                            {c \in DOMAIN F.clauses : sb.num_true_lit[c] = 0}, 0)
          IN  /\ makes - breaks = get_score(sb, var)
              /\ var \in sb.buckets[get_score(sb, var)]

\* ------------------------------------------------------------------ Scores
ScoresLog(o) ==
    [o EXCEPT !.trace = Append(@, [score |-> o.sb.breaks,
                                   buckets |-> o.sb.buckets,
                                   best_score |-> o.sb.best_score])]

get_break_score(sb, var) == sb.breaks[var]

\* mutant: best_score is raised although the old bucket is not empty
increment_break_score_eager(o, variable) ==
    IF o.exc # NoExc THEN o
    ELSE LET old == o.sb.breaks[variable]
             removed == [o.sb.buckets EXCEPT ![old] = @ \ {variable}]
             best == IF o.sb.best_score = old
                     THEN o.sb.best_score + 1 ELSE o.sb.best_score
         IN  ScoresLog([o EXCEPT !.sb.best_score = best,
                                 !.sb.breaks[variable] = old + 1,
                                 !.sb.buckets = BucketAdd(removed, old + 1, variable)])

increment_break_score(o, variable) ==
    IF o.exc # NoExc THEN o
    ELSE IF ~(variable > 0) THEN Raise(o, "AssertionError")
    ELSE IF variable \notin DOMAIN o.sb.breaks
            \/ variable \notin o.sb.buckets[o.sb.breaks[variable]]
         THEN Raise(o, "KeyError")
    ELSE LET old == o.sb.breaks[variable]
             removed == [o.sb.buckets EXCEPT ![old] = @ \ {variable}]
             best == IF o.sb.best_score = old /\ removed[old] = {}
                     THEN o.sb.best_score + 1 ELSE o.sb.best_score
         IN  ScoresLog([o EXCEPT !.sb.best_score = best,
                                 !.sb.breaks[variable] = old + 1,
                                 !.sb.buckets = BucketAdd(removed, old + 1, variable)])

\* mutant: best_score is lowered only when the old bucket becomes empty
decrement_break_score_when_empty(o, variable) ==
    IF o.exc # NoExc THEN o
    ELSE LET old == o.sb.breaks[variable]
             removed == [o.sb.buckets EXCEPT ![old] = @ \ {variable}]
             best == IF o.sb.best_score = old /\ removed[old] = {}
                     THEN o.sb.best_score - 1 ELSE o.sb.best_score
         IN  ScoresLog([o EXCEPT !.sb.best_score = best,
                                 !.sb.breaks[variable] = old - 1,
                                 !.sb.buckets = BucketAdd(removed, old - 1, variable)])

decrement_break_score(o, variable) ==
    IF o.exc # NoExc THEN o
    ELSE IF ~(variable > 0 /\ variable \in DOMAIN o.sb.breaks)
         THEN Raise(o, "AssertionError")
    ELSE IF variable \notin o.sb.buckets[o.sb.breaks[variable]]
         THEN Raise(o, "KeyError")
    ELSE LET old == o.sb.breaks[variable]
             removed == [o.sb.buckets EXCEPT ![old] = @ \ {variable}]
             best == IF o.sb.best_score = old
                     THEN o.sb.best_score - 1 ELSE o.sb.best_score
         IN  ScoresLog([o EXCEPT !.sb.best_score = best,
                                 !.sb.breaks[variable] = old - 1,
                                 !.sb.buckets = BucketAdd(removed, old - 1, variable)])

RECURSIVE ScoresCountTrue(_, _, _, _)
\* for lit in clause: if assignment.is_true(lit): crit_var = abs(lit);
\*                                       num_true_lit[clause_idx] += 1
ScoresCountTrue(assignment, clause, j, acc) ==
    IF j > Len(clause) THEN acc
    ELSE ScoresCountTrue(assignment, clause, j + 1,
            IF is_true(assignment, clause[j])
            THEN [n |-> acc.n + 1, crit_var |-> abs(clause[j])]
            ELSE acc)

\* one iteration of `for clause_idx, clause in enumerate(formula.clauses)`
ScoresInitClause(o, F, clause_idx) ==
    LET clause == F.clauses[clause_idx]
        cnt == ScoresCountTrue(o.assignment, clause, 1, [n |-> 0, crit_var |-> 0])
        o1 == add_num_true_lit(o, clause_idx, cnt.n)
    IN  IF cnt.n = 1
        THEN increment_break_score(set_crit_var(o1, clause_idx, cnt.crit_var),
                                   cnt.crit_var)
        ELSE IF cnt.n = 0
        THEN add(o1, clause_idx)
        ELSE o1

RECURSIVE ScoresInitLoop(_, _, _)
ScoresInitLoop(o, F, clause_idx) ==
    IF clause_idx \notin DOMAIN F.clauses \/ o.exc # NoExc THEN o
    ELSE ScoresInitLoop(ScoresInitClause(o, F, clause_idx), F, clause_idx + 1)

\* Scores(formula, assignment, falselist)
Scores_init(F, assignment, falselist) ==
    LET sb0 == [crit_var |-> [c \in DOMAIN F.clauses |-> 0],
                num_true_lit |-> [c \in DOMAIN F.clauses |-> 0],
                breaks |-> [v \in 1..F.num_vars |-> 0],
                buckets |-> [k \in 0..F.max_occs |->
                                IF k = 0 THEN 1..F.num_vars ELSE {}],
                best_score |-> 0]
    IN  ScoresInitLoop([assignment |-> assignment, falselist |-> falselist,
                        sb |-> sb0, exc |-> NoExc, trace |-> <<>>], F, 0)

Scores_get_best_bucket(sb) == sb.buckets[sb.best_score]

RECURSIVE ScoresMakeCritical(_, _, _, _)
\* for lit in formula.clauses[clause_idx]:
\*     if assignment.is_true(lit): crit_var[clause_idx] = abs(lit);
\*                                 self.increment_break_score(abs(lit))
ScoresMakeCritical(o, clause, clause_idx, j) ==
    IF j > Len(clause) THEN o
    ELSE ScoresMakeCritical(
            IF o.exc = NoExc /\ is_true(o.assignment, clause[j])
            THEN increment_break_score(set_crit_var(o, clause_idx, abs(clause[j])),
                                       abs(clause[j]))
            ELSE o,
            clause, clause_idx, j + 1)

\* assert literal in formula.clauses[clause_idx]
ScoresLitInClause(F, literal, clause_idx) ==
    \E j \in DOMAIN F.clauses[clause_idx] : F.clauses[clause_idx][j] = literal

\* body of `for clause_idx in formula.get_occurrences(satisfying_literal)`
ScoresSatClause(o, F, variable, satisfying_literal, clause_idx) ==
    IF ~ScoresLitInClause(F, satisfying_literal, clause_idx)
    THEN Raise(o, "AssertionError")
    ELSE
    LET n == o.sb.num_true_lit[clause_idx]
        o1 == IF n = 0
              THEN set_crit_var(
                      increment_break_score(remove(o, clause_idx), variable),
                      clause_idx, variable)
              ELSE IF n = 1
              THEN decrement_break_score(o, o.sb.crit_var[clause_idx])
              ELSE o
    IN  add_num_true_lit(o1, clause_idx, 1)

\* mutant: the break score of the variable is kept when its clause becomes
\* unsatisfied
ScoresUnsatClause_keep_break(o, F, variable, falsifying_literal, clause_idx) ==
    LET n == o.sb.num_true_lit[clause_idx]
        o1 == IF n = 1
              THEN set_crit_var(add(o, clause_idx), clause_idx, variable)
              ELSE IF n = 2
              THEN ScoresMakeCritical(o, F.clauses[clause_idx], clause_idx, 1)
              ELSE o
    IN  add_num_true_lit(o1, clause_idx, -1)

\* body of `for clause_idx in formula.get_occurrences(falsifying_literal)`
ScoresUnsatClause(o, F, variable, falsifying_literal, clause_idx) ==
    IF ~ScoresLitInClause(F, falsifying_literal, clause_idx)
    THEN Raise(o, "AssertionError")
    ELSE
    LET n == o.sb.num_true_lit[clause_idx]
        o1 == IF n = 1
              THEN set_crit_var(
                      decrement_break_score(add(o, clause_idx), variable),
                      clause_idx, variable)
              ELSE IF n = 2
              THEN ScoresMakeCritical(o, F.clauses[clause_idx], clause_idx, 1)
              ELSE o
    IN  add_num_true_lit(o1, clause_idx, -1)

RECURSIVE ScoresSatLoop(_, _, _, _, _, _)
ScoresSatLoop(o, F, variable, literal, occ, i) ==
    IF i > Len(occ) \/ o.exc # NoExc THEN o
    ELSE ScoresSatLoop(ScoresSatClause(o, F, variable, literal, occ[i]),
                       F, variable, literal, occ, i + 1)

RECURSIVE ScoresUnsatLoop(_, _, _, _, _, _)
ScoresUnsatLoop(o, F, variable, literal, occ, i) ==
    IF i > Len(occ) \/ o.exc # NoExc THEN o
    ELSE ScoresUnsatLoop(ScoresUnsatClause(o, F, variable, literal, occ[i]),
                         F, variable, literal, occ, i + 1)

\* Scores.flip(variable, formula, assignment, falselist); o.trace restarts
Scores_flip(o, variable, F) ==
    LET o1 == [o EXCEPT !.assignment = Assignment_flip(@, variable), !.trace = <<>>]
        satisfying_literal ==
            IF is_true(o1.assignment, variable) THEN variable ELSE -variable
        falsifying_literal ==
            IF is_true(o1.assignment, variable) THEN -variable ELSE variable
        o2 == ScoresSatLoop(o1, F, variable, satisfying_literal,
                            get_occurrences(F, satisfying_literal), 1)
    IN  ScoresUnsatLoop(o2, F, variable, falsifying_literal,
                        get_occurrences(F, falsifying_literal), 1)

\* Scores.self_test(formula, assignment)
Scores_self_test(sb, F, assignment) ==
    /\ \A clause_idx \in DOMAIN F.clauses :
          CountTrueLits(assignment, F.clauses[clause_idx], 1)
              = sb.num_true_lit[clause_idx]
    /\ \A var \in 1..F.num_vars :
          LET breaks == Cardinality({c \in DOMAIN F.clauses :
                            sb.num_true_lit[c] = 1 /\ sb.crit_var[c] = var})
          IN  /\ breaks = get_break_score(sb, var)
              /\ var \in sb.buckets[get_break_score(sb, var)]

\* ------------------------------------------------------------ state machine
VARIABLES
    kind,        \* which scoreboard class the solver instance uses
    formula,     \* the immutable Formula
    assignment,  \* the Assignment object
    falselist,   \* the Falselist object
    sb,          \* the scoreboard object (DiffScores or Scores)
    exc,         \* the exception the last call ended with, or NoExc
    steps,       \* score/buckets/best_score after each score primitive of the last call
    last,        \* the variable of the last flip, 0 after construction
    pre,         \* the objects before the last flip (before the last call)
    twice,       \* the last two flips flipped the same variable
    back,        \* if twice, the objects before those two flips
    env,         \* the interpreter: __debug__ and the state of the random module
    call,        \* the last call made on a Formula, an Assignment or a Falselist
    result       \* what that call returned, or the exception it raised

vars == <<kind, formula, assignment, falselist, sb, exc, steps, last, pre, twice, back,
          env, call, result>>

\* a solver instance makes no call but the constructors and flip
NoCall == [op |-> "none"]
NoResult == [exc |-> NoExc, value |-> <<>>]

\* the clauses of at most n literals, a literal being any of Lits: repeated
\* literals and tautologies included
ClauseSet(n) == UNION {[1..l -> Lits] : l \in 0..n}

RECURSIVE ClauseLists(_, _)
\* the lists of m clauses holding at most n literals in all
ClauseLists(m, n) ==
    IF m = 0 THEN {<<>>}
    ELSE UNION {{<<c>> \o rest : rest \in ClauseLists(m - 1, n - Len(c))} :
                  c \in ClauseSet(n)}

\* Formula(clauses = list, num_vars = NumVars, sat_assignment = ...)
FormulaSet ==
    {Formula_init([i \in 0..(Len(list) - 1) |-> list[i + 1]], NumVars) :
        list \in UNION {ClauseLists(m, MaxLits) : m \in 1..MaxClauses}}

\* no clause holds two literals on the same variable
NoRepeatedVariable(F) ==
    \A c \in DOMAIN F.clauses :
        \A i, j \in DOMAIN F.clauses[c] :
            i # j => abs(F.clauses[c][i]) # abs(F.clauses[c][j])

Objects == [assignment |-> assignment, falselist |-> falselist, sb |-> sb]

Construct(k, F, a) ==
    IF k = "DiffScores" THEN DiffScores_init(F, a, Falselist_init)
    ELSE Scores_init(F, a, Falselist_init)

Init ==
    /\ kind \in {"DiffScores", "Scores"}
    /\ formula \in FormulaSet
    /\ \E number \in 0..(2 ^ NumVars - 1) :
          LET o == Construct(kind, formula, Assignment_init(number, NumVars))
          IN  /\ assignment = o.assignment
              /\ falselist = o.falselist
              /\ sb = o.sb
              /\ exc = o.exc
              /\ steps = o.trace
              /\ pre = [assignment |-> o.assignment, falselist |-> o.falselist,
                        sb |-> o.sb]
              /\ back = [assignment |-> o.assignment, falselist |-> o.falselist,
                         sb |-> o.sb]
    /\ last = 0
    /\ twice = FALSE
    /\ env = [debug |-> TRUE, rng |-> <<"os", 0>>, tape |-> <<>>]
    /\ call = NoCall
    /\ result = NoResult

Current ==
    [assignment |-> assignment, falselist |-> falselist, sb |-> sb,
     exc |-> exc, trace |-> <<>>]

Step(o, variable) ==
    /\ assignment' = o.assignment
    /\ falselist' = o.falselist
    /\ sb' = o.sb
    /\ exc' = o.exc
    /\ steps' = o.trace
    /\ last' = variable
    /\ pre' = Objects
    /\ twice' = (last = variable)
    /\ back' = IF last = variable THEN pre ELSE Objects
    /\ UNCHANGED <<kind, formula, env, call, result>>

\* Scores of a formula with a repeated literal drift without bound; a flip
\* is explored only from a state whose scores are all within max_occs of 0
\* (every state of a formula without repeated variable is).

\* scoreboard.flip(variable, formula, assignment, falselist) on a DiffScores
DiffFlip(variable) ==
    /\ kind = "DiffScores"
    /\ exc = NoExc
    /\ \A v \in DOMAIN sb.score : abs(sb.score[v]) <= formula.max_occs
    /\ Step(DiffScores_flip(Current, variable, formula), variable)

\* scoreboard.flip(variable, formula, assignment, falselist) on a Scores
ScoresFlip(variable) ==
    /\ kind = "Scores"
    /\ exc = NoExc
    /\ \A v \in DOMAIN sb.breaks : abs(sb.breaks[v]) <= formula.max_occs
    /\ Step(Scores_flip(Current, variable, formula), variable)

Next ==
    \E variable \in 1..NumVars :
        \/ DiffFlip(variable)
        \/ ScoresFlip(variable)

Spec == Init /\ [][Next]_vars

\* ------------------------------------------------------------------ claims
Completed == exc = NoExc

\* the literals of clause c true under the current assignment, by position
TruePositions(c) ==
    {j \in DOMAIN formula.clauses[c] : is_true(assignment, formula.clauses[c][j])}

Occurs(v, c) ==
    \E j \in DOMAIN formula.clauses[c] : abs(formula.clauses[c][j]) = v

\* make(v): the clauses with no true literal that contain v
MakeCount(v) ==
    Cardinality({c \in DOMAIN formula.clauses : TruePositions(c) = {} /\ Occurs(v, c)})

\* break(v): the clauses whose only true literal is on v
BreakCount(v) ==
    Cardinality({c \in DOMAIN formula.clauses :
        \E j \in DOMAIN formula.clauses[c] :
            TruePositions(c) = {j} /\ abs(formula.clauses[c][j]) = v})

InFalselist(fl, c) == \E i \in DOMAIN fl.lst : fl.lst[i] = c

\* C1: for both scoreboards and every formula without repeated variable,
\* after construction and after every completed flip, num_true_lit[c] is the
\* number of literals of clause c true under the current assignment.
C1_NumTrueLitExact ==
    (Completed /\ NoRepeatedVariable(formula)) =>
        \A c \in DOMAIN formula.clauses :
            sb.num_true_lit[c] = Cardinality(TruePositions(c))

W1_TwoTrueLiteralsAfterFlip ==
    /\ Completed /\ NoRepeatedVariable(formula) /\ last # 0
    /\ \E c \in DOMAIN formula.clauses :
          sb.num_true_lit[c] = 2 /\ Occurs(last, c)

\* C2: for both scoreboards, starting from an empty Falselist, after
\* construction and after every completed flip, clause c is in the Falselist
\* iff num_true_lit[c] = 0 (formulas without repeated variable).
C2_FalselistIffNoTrueLit ==
    (Completed /\ NoRepeatedVariable(formula)) =>
        \A c \in DOMAIN formula.clauses :
            /\ InFalselist(falselist, c) <=> sb.num_true_lit[c] = 0
            /\ c \in DOMAIN falselist.mapping <=> sb.num_true_lit[c] = 0

W2_ClauseLeftFalselist ==
    /\ Completed /\ NoRepeatedVariable(formula) /\ last # 0
    /\ \E c, d \in DOMAIN formula.clauses :
          /\ InFalselist(pre.falselist, c) /\ ~InFalselist(falselist, c)
          /\ InFalselist(falselist, d)

\* C3: in DiffScores, for every formula without repeated variable, after
\* construction and after every completed flip, score[v] = make(v) - break(v)
\* recomputed from the assignment, for every variable v.
C3_DiffScoreIsMakeMinusBreak ==
    (kind = "DiffScores" /\ Completed /\ NoRepeatedVariable(formula)) =>
        \A v \in 1..formula.num_vars :
            sb.score[v] = MakeCount(v) - BreakCount(v)

W3_DiffScoreMixedAfterFlip ==
    /\ kind = "DiffScores" /\ Completed /\ NoRepeatedVariable(formula) /\ last # 0
    /\ \E v, w \in 1..formula.num_vars :
          /\ MakeCount(v) > 0 /\ BreakCount(w) > 0
          /\ sb.score[v] > 0 /\ sb.score[w] < 0

\* C4: in Scores, for every formula without repeated variable, after
\* construction and after every completed flip, breaks[v] is the number of
\* clauses whose only true literal is on v.
C4_BreaksIsBreakCount ==
    (kind = "Scores" /\ Completed /\ NoRepeatedVariable(formula)) =>
        \A v \in 1..formula.num_vars : sb.breaks[v] = BreakCount(v)

W4_BreaksTwoAfterFlip ==
    /\ kind = "Scores" /\ Completed /\ NoRepeatedVariable(formula) /\ last # 0
    /\ sb.breaks[last] = 2

\* C5: for both scoreboards, after construction and after every completed
\* flip, every clause c with num_true_lit[c] = 1 has crit_var[c] the variable
\* of its single true literal (formulas without repeated variable).
C5_CritVarIsSoleTrueVariable ==
    (Completed /\ NoRepeatedVariable(formula)) =>
        \A c \in DOMAIN formula.clauses :
            sb.num_true_lit[c] = 1 =>
                \E j \in DOMAIN formula.clauses[c] :
                    /\ TruePositions(c) = {j}
                    /\ sb.crit_var[c] = abs(formula.clauses[c][j])

W5_CritVarTakenOverByOtherVariable ==
    /\ Completed /\ NoRepeatedVariable(formula) /\ last # 0
    /\ \E c \in DOMAIN formula.clauses :
          /\ pre.sb.num_true_lit[c] = 2 /\ sb.num_true_lit[c] = 1
          /\ sb.crit_var[c] # last /\ sb.crit_var[c] \in 1..formula.num_vars

BoardScores(board) == IF kind = "DiffScores" THEN board.score ELSE board.breaks

\* every variable is in the bucket of its score and in no other bucket
BucketContainment(score, buckets) ==
    \A v \in 1..formula.num_vars :
        /\ score[v] \in DOMAIN buckets
        /\ \A k \in DOMAIN buckets : v \in buckets[k] <=> k = score[v]

\* C6: for both scoreboards, after construction, after every call of a
\* score primitive and after every flip, every variable is a member of
\* buckets[score[v]] and of no other bucket.
C6_BucketContainment ==
    /\ BucketContainment(BoardScores(sb), sb.buckets)
    /\ \A i \in DOMAIN steps : BucketContainment(steps[i].score, steps[i].buckets)

W6_BufferBucketInsideFlip ==
    /\ Completed /\ last # 0 /\ Len(steps) >= 3
    /\ \E i \in DOMAIN steps : abs(steps[i].score[last]) > formula.max_occs

\* C7 as stated: for both scoreboards, after construction and after every
\* completed flip, buckets[s] is empty for every s > best_score and
\* buckets[best_score] is non-empty.
C7_BestScoreMaximal ==
    Completed =>
        /\ \A s \in DOMAIN sb.buckets : s > sb.best_score => sb.buckets[s] = {}
        /\ sb.buckets[sb.best_score] # {}

\* C7 as amended: after construction and after every completed flip,
\* buckets[best_score] is non-empty; in DiffScores buckets[s] is empty for
\* every s > best_score, in Scores buckets[s] is empty for every
\* s < best_score.
C7_BestScoreExtremal ==
    Completed =>
        /\ sb.best_score \in DOMAIN sb.buckets
        /\ sb.buckets[sb.best_score] # {}
        /\ \A s \in DOMAIN sb.buckets :
              IF kind = "DiffScores"
              THEN s > sb.best_score => sb.buckets[s] = {}
              ELSE s < sb.best_score => sb.buckets[s] = {}

W7_ScoresBestIsSmallestBreak ==
    /\ kind = "Scores" /\ Completed /\ last # 0
    /\ \E s \in DOMAIN sb.buckets : s > sb.best_score /\ sb.buckets[s] # {}

\* C8: in DiffScores, after construction and after every completed flip,
\* get_best_bucket() returns (s, B) with s the maximum score over all
\* variables and B exactly the variables whose score is s.
C8_DiffBestBucketIsArgmax ==
    (kind = "DiffScores" /\ Completed) =>
        LET s == Max({sb.score[v] : v \in 1..formula.num_vars})
        IN  DiffScores_get_best_bucket(sb)
                = <<s, {v \in 1..formula.num_vars : sb.score[v] = s}>>

W8_DiffBestBucketLoweredByFlip ==
    /\ kind = "DiffScores" /\ Completed /\ last # 0
    /\ sb.best_score < pre.sb.best_score
    /\ Cardinality(sb.buckets[sb.best_score]) = 2

\* C9: for any Formula the constructor accepts (repeated literals and
\* tautological clauses included), any initial assignment and any flip
\* sequence, self_test(formula, assignment) returns True after construction
\* and after each flip, for DiffScores and for Scores.
C9_SelfTestTrue ==
    Completed =>
        IF kind = "DiffScores"
        THEN DiffScores_self_test(sb, formula, assignment)
        ELSE Scores_self_test(sb, formula, assignment)

BucketAt(board, k) == IF k \in DOMAIN board.buckets THEN board.buckets[k] ELSE {}

FalseSet(fl) == {fl.lst[i] : i \in DOMAIN fl.lst}

\* C10 as stated: two flips of the same variable in succession restore the
\* assignment, the Falselist (lst and mapping), num_true_lit, crit_var of
\* every clause, every score, the buckets and best_score exactly.
C10_FlipTwiceBitExact ==
    (Completed /\ twice) => Objects = back

\* C10 as amended: two flips of the same variable in succession restore the
\* assignment, num_true_lit of every clause and the Falselist as a set; and,
\* for a formula without repeated variable, every score, best_score, the
\* members of every bucket (an unallocated bucket counting as empty) and
\* crit_var of every clause with exactly one true literal.
C10_FlipTwiceRestoresObservable ==
    (Completed /\ twice) =>
        /\ assignment = back.assignment
        /\ sb.num_true_lit = back.sb.num_true_lit
        /\ FalseSet(falselist) = FalseSet(back.falselist)
        /\ DOMAIN falselist.mapping = DOMAIN back.falselist.mapping
        /\ NoRepeatedVariable(formula) =>
              /\ BoardScores(sb) = BoardScores(back.sb)
              /\ sb.best_score = back.sb.best_score
              /\ \A k \in (DOMAIN sb.buckets) \cup (DOMAIN back.sb.buckets) :
                    BucketAt(sb, k) = BucketAt(back.sb, k)
              /\ \A c \in DOMAIN formula.clauses :
                    sb.num_true_lit[c] = 1 => sb.crit_var[c] = back.sb.crit_var[c]

W10_FlipTwiceReordersFalselist ==
    /\ Completed /\ twice /\ NoRepeatedVariable(formula)
    /\ falselist.lst # back.falselist.lst
    /\ FalseSet(falselist) = FalseSet(back.falselist)

\* no call of the model ends with an exception
NoException == exc = NoExc

Min(S) == CHOOSE x \in S : \A y \in S : x <= y

\* best_score is the smallest break score, no bucket below it has a member,
\* and the bucket get_best_bucket() returns holds the variables of that score
BestIsMinBreak(breaks, buckets, best_score) ==
    LET m == Min({breaks[v] : v \in 1..formula.num_vars})
    IN  /\ best_score = m
        /\ \A s \in DOMAIN buckets : s < best_score => buckets[s] = {}
        /\ best_score \in DOMAIN buckets
        /\ Scores_get_best_bucket([buckets |-> buckets, best_score |-> best_score])
              = {v \in 1..formula.num_vars : breaks[v] = m}

\* C22: in Scores, after construction and after every call of
\* increment_break_score / decrement_break_score of any flip sequence,
\* best_score is the minimum of breaks[v] over all variables, buckets[s] is
\* empty for every s < best_score, and get_best_bucket() is exactly the set
\* of variables with minimum break score.
C22_ScoresBestIsMinBreak ==
    kind = "Scores" =>
        /\ BestIsMinBreak(sb.breaks, sb.buckets, sb.best_score)
        /\ \A i \in DOMAIN steps :
              BestIsMinBreak(steps[i].score, steps[i].buckets, steps[i].best_score)

\* inside a flip the minimum rose and fell again
W22_MinimumMovedInsideFlip ==
    /\ kind = "Scores" /\ Completed /\ last # 0
    /\ \E i, j \in DOMAIN steps :
          /\ i < j
          /\ steps[i].best_score > pre.sb.best_score
          /\ steps[j].best_score < steps[i].best_score
    /\ Cardinality(Scores_get_best_bucket(sb)) < formula.num_vars

\* ===================================================== Formula generator
\* assert clause_length == 3
ClauseLength == 3

\* ------------------------------------------------------ the random module
\* The process-wide generator of the random module.  env.rng is its state:
\* <<origin, n>> is the state n draws after random.seed(origin), or n draws
\* after the state the process started with (origin "os").  What a state
\* yields is not known before it is drawn and is the same whenever that
\* state is drawn from again: env.tape records it.
Truthy(x) == x # None /\ x # 0

random_seed(e, seed) == [e EXCEPT !.rng = <<seed, 0>>]

\* one call of randrange / sample / choices: fresh is what the generator
\* yields if this state was never drawn from
Draw(e, fresh) ==
    LET key == e.rng
        value == IF key \in DOMAIN e.tape THEN e.tape[key] ELSE fresh
    IN  [env |-> [e EXCEPT !.rng = <<key[1], key[2] + 1>>,
                           !.tape = [k \in (DOMAIN e.tape) \cup {key} |->
                                        IF k = key THEN value ELSE e.tape[k]]],
         value |-> value]

\* Assignment.generate_random_assignment(num_vars, seed)
generate_random_assignment(e, num_vars, seed, fresh) ==
    LET e1 == IF Truthy(seed) THEN random_seed(e, seed) ELSE e
        d == Draw(e1, fresh)
    IN  [env |-> d.env, value |-> Assignment_init(d.value, num_vars)]

\* for clause in self.clauses: ... if not true_clause: return False
is_satisfied_by(F, a) ==
    \A c \in DOMAIN F.clauses :
        \E j \in DOMAIN F.clauses[c] : is_true(a, F.clauses[c][j])

\* Formula(clauses = ..., num_vars = ..., sat_assignment = ...); clauses is a
\* sequence of clauses here, stored as the list the scoreboards index
Formula_parts(clauses, num_vars, sat_assignment) ==
    IF Len(clauses) = 0 \/ num_vars = 0
    THEN [exc |-> "ValueError", value |-> <<>>]
    ELSE LET F == Formula_init([i \in 0..(Len(clauses) - 1) |-> clauses[i + 1]],
                               num_vars)
         IN  IF F.exc # NoExc THEN [exc |-> F.exc, value |-> <<>>]
             ELSE [exc |-> F.exc,
                   value |-> F @@ [satisfying_assignment |-> sat_assignment,
                                   comments |-> <<>>]]

RECURSIVE SignPatterns_short(_, _, _)
\* mutant: the last sampled variable is left out of the candidates
SignPatterns_short(acc, variables, j) ==
    IF j >= Len(variables) THEN acc
    ELSE SignPatterns_short(
            [i \in 1..(2 * Len(acc)) |->
                IF i <= Len(acc) THEN <<variables[j]>> \o acc[i]
                ELSE <<-variables[j]>> \o acc[i - Len(acc)]],
            variables, j + 1)

RECURSIVE SignPatterns(_, _, _)
\* for var in variables: acc = [[var] + xs ...] + [[-var] + xs ...]
SignPatterns(acc, variables, j) ==
    IF j > Len(variables) THEN acc
    ELSE SignPatterns(
            [i \in 1..(2 * Len(acc)) |->
                IF i <= Len(acc) THEN <<variables[j]>> \o acc[i]
                ELSE <<-variables[j]>> \o acc[i - Len(acc)]],
            variables, j + 1)

\* x = sum(map(f, clause))
TrueCount(a, clause) ==
    Cardinality({j \in DOMAIN clause : is_true(a, clause[j])})

\* mutant: the candidates falsified by the assignment are kept
Survivors_all(acc, a) == acc

\* cs: the candidates with x > 0, in the order of acc
Survivors(acc, a) == SelectSeq(acc, LAMBDA clause : TrueCount(a, clause) > 0)

\* one iteration of the loop: random.sample, the candidates, random.choices.
\* g = [env, clauses, exc]; fresh = [sample, choice], choice being the
\* position in cs of the candidate random.choices returns (every weight
\* p[x] is positive, so it can return any of them).
GenClause(g, num_vars, clause_length, satisfying_assignment, fresh) ==
    IF g.exc # NoExc THEN g
    ELSE IF num_vars < clause_length THEN [g EXCEPT !.exc = "ValueError"]
    ELSE
        LET d1 == Draw(g.env, fresh.sample)
            cs == Survivors(SignPatterns(<<<<>>>>, d1.value, 1), satisfying_assignment)
            d2 == Draw(d1.env, fresh.choice)
        IN  [g EXCEPT !.env = d2.env, !.clauses = Append(@, cs[d2.value])]

RECURSIVE GenLoop(_, _, _, _, _, _)
\* for i in range(0, num_clauses + 1)
GenLoop(g, num_vars, clause_length, satisfying_assignment, fresh, i) ==
    IF i > Len(fresh) THEN g
    ELSE GenLoop(GenClause(g, num_vars, clause_length, satisfying_assignment, fresh[i]),
                 num_vars, clause_length, satisfying_assignment, fresh, i + 1)

\* num_clauses = int(ratio * num_vars), ratio = ratio[1] / ratio[2]
NumClauses(num_vars, ratio) == (ratio[1] * num_vars) \div ratio[2]

\* Formula.generate_satisfiable_formula(num_vars, ratio, 3, seed);
\* fresh = [number, picks]: what the generator yields where it was never
\* drawn from.  Returns [env, exc, value].
generate_satisfiable_formula(e, num_vars, ratio, seed, fresh) ==
    LET e1 == IF Truthy(seed) THEN random_seed(e, seed) ELSE e
        ga == generate_random_assignment(e1, num_vars, seed, fresh.number)
        g == GenLoop([env |-> ga.env, clauses |-> <<>>, exc |-> NoExc],
                     num_vars, ClauseLength, ga.value, fresh.picks, 1)
        f == Formula_parts(g.clauses, num_vars, ga.value)
    IN  IF g.exc # NoExc THEN [env |-> g.env, exc |-> g.exc, value |-> <<>>]
        ELSE IF f.exc # NoExc THEN [env |-> g.env, exc |-> f.exc, value |-> <<>>]
        ELSE IF ~is_satisfied_by(f.value, ga.value)
        THEN [env |-> g.env, exc |-> "RuntimeError", value |-> <<>>]
        ELSE [env |-> g.env, exc |-> NoExc, value |-> f.value]

\* --------------------------------------------- specification: one generation
\* the solver's objects, where no solver instance exists
NoSolver ==
    /\ kind = "none" /\ formula = <<>> /\ assignment = <<>> /\ falselist = <<>>
    /\ sb = <<>> /\ exc = NoExc /\ steps = <<>> /\ last = 0
    /\ pre = <<>> /\ twice = FALSE /\ back = <<>>

solver == <<kind, formula, assignment, falselist, sb, exc, steps, last, pre, twice, back>>

\* <<num_vars, ratio>>, ratio as <<numerator, denominator>>: the smallest
\* num_vars random.sample accepts with one and with two clauses, and one
\* more variable than a clause holds with one clause
GenInputs ==
    {<<ClauseLength, <<1, 5>>>>, <<ClauseLength, <<1, 3>>>>,
     <<ClauseLength + 1, <<1, 5>>>>}

\* None, 0 and a non-zero seed
Seeds == {None, 0, 1}

\* random.sample(range(1, num_vars + 1), clause_length): distinct variables
Samples(num_vars) ==
    {t \in [1..ClauseLength -> 1..num_vars] :
        \A i, j \in 1..ClauseLength : i # j => t[i] # t[j]}

RECURSIVE Picks(_, _)
\* what n iterations of the loop can draw
Picks(num_vars, n) ==
    IF n = 0 THEN {<<>>}
    ELSE {<<[sample |-> t, choice |-> k]>> \o rest :
            t \in Samples(num_vars), k \in 1..(2 ^ ClauseLength - 1),
            rest \in Picks(num_vars, n - 1)}

\* what one call can draw
FreshSet(num_vars, ratio) ==
    [number : 0..(2 ^ num_vars - 1),
     picks : Picks(num_vars, NumClauses(num_vars, ratio) + 1)]

GenInit ==
    /\ NoSolver
    /\ env = [debug |-> TRUE, rng |-> <<"os", 0>>, tape |-> <<>>]
    /\ call = NoCall
    /\ result = NoResult

\* Formula.generate_satisfiable_formula(num_vars, ratio, 3, seed)
Generate(num_vars, ratio, seed) ==
    /\ call = NoCall
    /\ \E fresh \in FreshSet(num_vars, ratio) :
          LET r == generate_satisfiable_formula(env, num_vars, ratio, seed, fresh)
          IN  /\ env' = r.env
              /\ result' = [exc |-> r.exc, value |-> r.value]
    /\ call' = [op |-> "generate_satisfiable_formula", num_vars |-> num_vars,
                ratio |-> ratio, seed |-> seed, nth |-> 1]
    /\ UNCHANGED solver

GenNext ==
    \E input \in GenInputs, seed \in Seeds :
        Generate(input[1], input[2], seed)

GenSpec == GenInit /\ [][GenNext]_vars

\* C11: for every num_vars >= 3, ratio, seed and every outcome of the random
\* choices, generate_satisfiable_formula returns (no RuntimeError, no other
\* exception) a formula of int(ratio * num_vars) + 1 clauses, each with a
\* literal true under the embedded satisfying_assignment.
C11_GeneratedFormulaSatisfied ==
    call.op = "generate_satisfiable_formula" =>
        /\ result.exc = NoExc
        /\ result.value.num_clauses = NumClauses(call.num_vars, call.ratio) + 1
        /\ \A c \in DOMAIN result.value.clauses :
              \E j \in DOMAIN result.value.clauses[c] :
                  is_true(result.value.satisfying_assignment,
                          result.value.clauses[c][j])

W11_TwoClausesOneTrueLiteralEach ==
    /\ call.op = "generate_satisfiable_formula" /\ result.exc = NoExc
    /\ result.value.num_clauses = 2
    /\ \A c \in DOMAIN result.value.clauses :
          TrueCount(result.value.satisfying_assignment, result.value.clauses[c]) = 1

\* C25: generate_satisfiable_formula(N, r, 3, seed) returns a formula of
\* exactly M + 1 clauses, M = floor(r * N), and every clause has exactly 3
\* literals over 3 pairwise distinct variables of 1..N.
C25_ClauseCountAndShape ==
    call.op = "generate_satisfiable_formula" =>
        /\ result.exc = NoExc
        /\ DOMAIN result.value.clauses
              = 0..NumClauses(call.num_vars, call.ratio)
        /\ \A c \in DOMAIN result.value.clauses :
              LET clause == result.value.clauses[c]
              IN  /\ Len(clause) = ClauseLength
                  /\ \A j \in DOMAIN clause : abs(clause[j]) \in 1..call.num_vars
                  /\ \A i, j \in DOMAIN clause :
                        i # j => abs(clause[i]) # abs(clause[j])

\* two clauses (M = 1) on the same variables in different orders
W25_TwoClausesOfThreeVariables ==
    /\ call.op = "generate_satisfiable_formula" /\ result.exc = NoExc
    /\ NumClauses(call.num_vars, call.ratio) = 1
    /\ Cardinality(DOMAIN result.value.clauses) = 2
    /\ abs(result.value.clauses[0][1]) # abs(result.value.clauses[1][1])
    /\ \E j \in 1..ClauseLength : result.value.clauses[0][j] < 0

\* --------------------------------- specification: the same generation twice
\* a second call with the arguments of the first; pre keeps what the first
\* call returned
GenerateAgain ==
    /\ call.op = "generate_satisfiable_formula" /\ call.nth = 1
    /\ result.exc = NoExc /\ last = 0
    /\ \E fresh \in FreshSet(call.num_vars, call.ratio) :
          LET r == generate_satisfiable_formula(env, call.num_vars, call.ratio,
                                                call.seed, fresh)
          IN  /\ env' = r.env
              /\ result' = [exc |-> r.exc, value |-> r.value]
    /\ call' = [call EXCEPT !.nth = 2]
    /\ pre' = result
    /\ UNCHANGED <<kind, formula, assignment, falselist, sb, exc, steps, last,
                   twice, back>>

SeedNext ==
    \/ \E seed \in Seeds \ {None} : Generate(ClauseLength, <<1, 5>>, seed)
    \/ GenerateAgain

SeedSpec == GenInit /\ [][SeedNext]_vars

\* C12: for every seed value (0 included) and whatever the prior state of
\* the random module, two calls generate_satisfiable_formula(N, r, 3, seed)
\* return formulas with identical clauses and identical witness.
C12_SameSeedSameFormula ==
    (call.op = "generate_satisfiable_formula" /\ call.nth = 2
        /\ result.exc = NoExc /\ pre.exc = NoExc) =>
        /\ result.value.clauses = pre.value.clauses
        /\ result.value.satisfying_assignment = pre.value.satisfying_assignment

\* the part of C12 the code keeps: a non-zero seed
SeedNonZeroSameFormula ==
    (call.op = "generate_satisfiable_formula" /\ call.nth = 2 /\ Truthy(call.seed)) =>
        result = pre

\* ================================================== DIMACS text of a Formula
\* A str is the sequence of its characters, each a string of length 1.
DecChars == <<"0", "1", "2", "3", "4", "5", "6", "7", "8", "9">>
HexChars == DecChars \o <<"a", "b", "c", "d", "e", "f">>
UpperHexChars == <<"A", "B", "C", "D", "E", "F">>

IsDigit(ch) == \E d \in DOMAIN DecChars : DecChars[d] = ch

\* [0-9a-fA-F]
IsHexDigit(ch) ==
    \/ \E d \in DOMAIN HexChars : HexChars[d] = ch
    \/ \E d \in DOMAIN UpperHexChars : UpperHexChars[d] = ch

HexValue(ch) ==
    IF \E d \in DOMAIN HexChars : HexChars[d] = ch
    THEN (CHOOSE d \in DOMAIN HexChars : HexChars[d] = ch) - 1
    ELSE (CHOOSE d \in DOMAIN UpperHexChars : UpperHexChars[d] = ch) + 9

RECURSIVE Digits(_, _, _)
\* the digits of n >= 0 in the given base
Digits(n, base, chars) ==
    IF n < base THEN <<chars[n + 1]>>
    ELSE Digits(n \div base, base, chars) \o <<chars[(n % base) + 1]>>

\* '{}'.format(n) of an int
str_int(n) == IF n < 0 THEN <<"-">> \o Digits(-n, 10, DecChars) ELSE Digits(n, 10, DecChars)

\* hex(n)
hex(n) ==
    IF n < 0 THEN <<"-", "0", "x">> \o Digits(-n, 16, HexChars)
    ELSE <<"0", "x">> \o Digits(n, 16, HexChars)

RECURSIVE ParseDigits(_, _, _)
\* the value of the digits s[i..], acc being the value of those before
ParseDigits(s, i, acc) ==
    IF i > Len(s) THEN acc
    ELSE ParseDigits(s, i + 1, acc * 10 + HexValue(s[i]))

RECURSIVE ParseHexDigits(_, _, _)
ParseHexDigits(s, i, acc) ==
    IF i > Len(s) THEN acc
    ELSE ParseHexDigits(s, i + 1, acc * 16 + HexValue(s[i]))

\* int(s) of a match of -?\d+
int(s) == IF s[1] = "-" THEN -ParseDigits(s, 2, 0) ELSE ParseDigits(s, 1, 0)

\* int(s, 16) of a match of -?0x[0-9a-fA-F]+
int16(s) == IF s[1] = "-" THEN -ParseHexDigits(s, 4, 0) ELSE ParseHexDigits(s, 3, 0)

RECURSIVE integer_from_atoms_first_high(_)
\* mutant: the atoms are read from the front, the first as the highest bit
integer_from_atoms_first_high(atoms) ==
    IF Len(atoms) = 0 THEN 0
    ELSE integer_from_atoms_first_high(SubSeq(atoms, 1, Len(atoms) - 1)) * 2
            + (IF atoms[Len(atoms)] THEN 1 ELSE 0)

RECURSIVE integer_from_atoms(_)
\* while tmp: n *= 2; n += 1 if tmp.pop() else 0
integer_from_atoms(atoms) ==
    IF Len(atoms) = 0 THEN 0
    ELSE LET n == integer_from_atoms(SubSeq(atoms, 2, Len(atoms)))
         IN  n * 2 + (IF atoms[1] THEN 1 ELSE 0)

\* Assignment.__str__
Assignment_str(a) == hex(integer_from_atoms(a.atoms))

RECURSIVE SplitLines(_, _, _)
\* str.splitlines(): cur is the line being read
SplitLines(text, cur, i) ==
    IF i > Len(text) THEN (IF Len(cur) = 0 THEN <<>> ELSE <<cur>>)
    ELSE IF text[i] = "\n" THEN <<cur>> \o SplitLines(text, <<>>, i + 1)
    ELSE SplitLines(text, Append(cur, text[i]), i + 1)

splitlines(text) == SplitLines(text, <<>>, 1)

\* the last position of the run of digits (\d+, or [0-9a-fA-F]+ when hexa)
\* that starts at i
RunEnd(line, i, hexa) ==
    LET Is(ch) == IF hexa THEN IsHexDigit(ch) ELSE IsDigit(ch)
    IN  CHOOSE j \in i..Len(line) :
            /\ \A k \in i..j : Is(line[k])
            /\ j = Len(line) \/ ~Is(line[j + 1])

DigitAt(line, i) == i <= Len(line) /\ IsDigit(line[i])

RECURSIVE FindNumbers(_, _)
\* re.compile(r'-?\d+').findall(line), from position i on
FindNumbers(line, i) ==
    IF i > Len(line) THEN <<>>
    ELSE IF DigitAt(line, i)
    THEN LET j == RunEnd(line, i, FALSE)
         IN  <<SubSeq(line, i, j)>> \o FindNumbers(line, j + 1)
    ELSE IF line[i] = "-" /\ DigitAt(line, i + 1)
    THEN LET j == RunEnd(line, i + 1, FALSE)
         IN  <<SubSeq(line, i, j)>> \o FindNumbers(line, j + 1)
    ELSE FindNumbers(line, i + 1)

\* 0x[0-9a-fA-F]+ matches at position i
HexAt(line, i) ==
    /\ i + 2 <= Len(line)
    /\ line[i] = "0" /\ line[i + 1] = "x" /\ IsHexDigit(line[i + 2])

RECURSIVE FindHexNumbers(_, _)
\* re.compile(r'-?0x[0-9a-fA-F]+').findall(line), from position i on
FindHexNumbers(line, i) ==
    IF i > Len(line) THEN <<>>
    ELSE IF HexAt(line, i)
    THEN LET j == RunEnd(line, i + 2, TRUE)
         IN  <<SubSeq(line, i, j)>> \o FindHexNumbers(line, j + 1)
    ELSE IF line[i] = "-" /\ HexAt(line, i + 1)
    THEN LET j == RunEnd(line, i + 3, TRUE)
         IN  <<SubSeq(line, i, j)>> \o FindHexNumbers(line, j + 1)
    ELSE FindHexNumbers(line, i + 1)

\* line.startswith(prefix)
startswith(line, prefix) ==
    Len(line) >= Len(prefix) /\ SubSeq(line, 1, Len(prefix)) = prefix

AssgnPrefix == <<"c", " ", "a", "s", "s", "g", "n">>

\* hex_val before the first 'c assgn' line
Unbound == <<>>

\* one line of the text; d = [clauses, num_vars, num_clauses, comments,
\* satisfying_assignment, hex_val, exc]
ParseLine(d, line) ==
    IF d.exc # NoExc THEN d
    ELSE IF Len(line) = 0 THEN [d EXCEPT !.exc = "IndexError"]
    ELSE IF line[1] = "c"
    THEN IF startswith(line, AssgnPrefix)
         THEN LET found == FindHexNumbers(line, 1)
              IN  IF Len(found) # 1 THEN [d EXCEPT !.exc = "ValueError"]
                  ELSE [d EXCEPT !.hex_val = found[1]]
         ELSE [d EXCEPT !.comments = Append(@, line)]
    ELSE IF line[1] = "p"
    THEN LET found == FindNumbers(line, 1)
         IN  IF Len(found) # 2 THEN [d EXCEPT !.exc = "ValueError"]
             ELSE IF d.hex_val = Unbound
             THEN [d EXCEPT !.num_vars = int(found[1]),
                            !.num_clauses = int(found[2]),
                            !.exc = "UnboundLocalError"]
             ELSE [d EXCEPT !.num_vars = int(found[1]),
                            !.num_clauses = int(found[2]),
                            !.satisfying_assignment =
                                Assignment_init(int16(d.hex_val), int(found[1]))]
    ELSE LET found == FindNumbers(line, 1)
         IN  [d EXCEPT !.clauses =
                 Append(@, [j \in 1..(Len(found) - 1) |-> int(found[j])])]

RECURSIVE ParseLines(_, _, _)
\* for line in dimacs.splitlines()
ParseLines(d, lines, i) ==
    IF i > Len(lines) THEN d
    ELSE ParseLines(ParseLine(d, lines[i]), lines, i + 1)

\* Formula(dimacs = text): [exc, value]
Formula_dimacs(text) ==
    IF Len(text) = 0 THEN [exc |-> "ValueError", value |-> <<>>]
    ELSE
        LET d == ParseLines([clauses |-> <<>>, num_vars |-> 0, num_clauses |-> 0,
                             comments |-> <<>>, satisfying_assignment |-> None,
                             hex_val |-> Unbound, exc |-> NoExc],
                            splitlines(text), 1)
            F == Formula_init([i \in 0..(Len(d.clauses) - 1) |-> d.clauses[i + 1]],
                              d.num_vars)
        IN  IF d.exc # NoExc THEN [exc |-> d.exc, value |-> <<>>]
            ELSE IF F.exc # NoExc THEN [exc |-> F.exc, value |-> <<>>]
            ELSE [exc |-> F.exc,
                  value |-> [F EXCEPT !.num_clauses = d.num_clauses]
                            @@ [satisfying_assignment |-> d.satisfying_assignment,
                                comments |-> d.comments]]

RECURSIVE Concat(_, _)
\* the concatenation of the strings parts[i..]
Concat(parts, i) ==
    IF i > Len(parts) THEN <<>> ELSE parts[i] \o Concat(parts, i + 1)

\* for literal in clause: toReturn += '{} '.format(literal); then '0\n'
ClauseText(clause) ==
    Concat([j \in DOMAIN clause |-> str_int(clause[j]) \o <<" ">>], 1) \o <<"0", "\n">>

\* for comment in self.comments: toReturn += comment
CommentsText(comments) == Concat(comments, 1)

\* Formula.__str__
Formula_str(F) ==
    CommentsText(F.comments)
    \o AssgnPrefix \o <<" ">> \o Assignment_str(F.satisfying_assignment) \o <<"\n">>
    \o <<"p", " ", "c", "n", "f", " ">> \o str_int(F.num_vars) \o <<" ">>
    \o str_int(F.num_clauses) \o <<"\n">>
    \o Concat([c \in 1..Cardinality(DOMAIN F.clauses) |-> ClauseText(F.clauses[c - 1])], 1)

\* Formula.__eq__
Formula_eq(F, G) ==
    /\ F.num_vars = G.num_vars
    /\ F.clauses = G.clauses
    /\ Assignment_str(F.satisfying_assignment) = Assignment_str(G.satisfying_assignment)

\* ------------------------------ specification: construction and round trip
\* the clauses of at most n literals drawn from L
ClausesOver(L, n) == UNION {[1..l -> L] : l \in 0..n}

RECURSIVE ClauseListsOver(_, _, _)
\* the lists of m clauses over L holding at most n literals in all
ClauseListsOver(L, m, n) ==
    IF m = 0 THEN {<<>>}
    ELSE UNION {{<<c>> \o rest : rest \in ClauseListsOver(L, m - 1, n - Len(c))} :
                  c \in ClausesOver(L, n)}

\* the literals of a DIMACS file: those of 1..NumVars and, beyond them, the
\* first literal on either side and the two around the place where
\* num_vars + lit leaves the list (-(3 * NumVars + 1) is the last inside)
FileLits ==
    Lits \cup {NumVars + 1, -(NumVars + 1), -(3 * NumVars + 1), -(3 * NumVars + 2)}

\* no comment line, 'c hi', 'c 7'
CommentLists == {<<>>, << <<"c", " ", "h", "i">> >>, << <<"c", " ", "7">> >>}

\* a DIMACS file as a writer lays it out: the comment lines, the witness,
\* the header, one line per clause (pad: what follows the closing 0)
DimacsText(comments, number, num_vars, clauses, pad) ==
    Concat([i \in DOMAIN comments |-> comments[i] \o <<"\n">>], 1)
    \o AssgnPrefix \o <<" ">> \o hex(number) \o <<"\n">>
    \o <<"p", " ", "c", "n", "f", " ">> \o str_int(num_vars) \o <<" ">>
    \o str_int(Len(clauses)) \o <<"\n">>
    \o Concat([c \in DOMAIN clauses |->
                 Concat([j \in DOMAIN clauses[c] |-> str_int(clauses[c][j]) \o <<" ">>], 1)
                 \o <<"0">> \o pad \o <<"\n">>], 1)

DimacsInit ==
    /\ NoSolver
    /\ env = [debug |-> TRUE, rng |-> <<"os", 0>>, tape |-> <<>>]
    /\ call = NoCall
    /\ result = NoResult

\* F = Formula(clauses = clauses, num_vars = NumVars, sat_assignment = Assignment(number, NumVars))
FromParts(clauses, number) ==
    /\ call = NoCall
    /\ LET r == Formula_parts(clauses, NumVars, Assignment_init(number, NumVars))
       IN  /\ result' = r
           /\ formula' = r.value
    /\ call' = [op |-> "Formula", by |-> "parts", dimacs |-> <<>>,
                num_vars |-> NumVars, clauses |-> clauses]
    /\ UNCHANGED <<kind, assignment, falselist, sb, exc, steps, last, pre, twice,
                   back, env>>

\* F = Formula(dimacs = text), text laying out the given file
FromDimacs(comments, number, clauses, pad) ==
    /\ call = NoCall
    /\ LET text == DimacsText(comments, number, NumVars, clauses, pad)
           r == Formula_dimacs(text)
       IN  /\ result' = r
           /\ formula' = r.value
           /\ call' = [op |-> "Formula", by |-> "dimacs", dimacs |-> text,
                       num_vars |-> NumVars, clauses |-> clauses]
    /\ UNCHANGED <<kind, assignment, falselist, sb, exc, steps, last, pre, twice,
                   back, env>>

\* Formula(dimacs = str(F)) of the Formula constructed
RoundTrip ==
    /\ call.op = "Formula" /\ result.exc = NoExc
    /\ LET text == Formula_str(formula)
       IN  /\ result' = Formula_dimacs(text)
           /\ call' = [op |-> "Formula(dimacs = str(F))", dimacs |-> text]
    /\ UNCHANGED <<kind, formula, assignment, falselist, sb, exc, steps, last, pre,
                   twice, back, env>>

DimacsNext ==
    \/ \E clauses \in UNION {ClauseListsOver(Lits, m, MaxLits) : m \in 1..MaxClauses},
          number \in 0..(2 ^ NumVars - 1) :
            FromParts(clauses, number)
    \/ \E comments \in CommentLists, number \in 0..(2 ^ NumVars - 1),
          clauses \in UNION {ClauseListsOver(FileLits, m, MaxLits) : m \in 1..MaxClauses},
          pad \in {<<>>, <<" ">>} :
            FromDimacs(comments, number, clauses, pad)
    \/ RoundTrip

DimacsSpec == DimacsInit /\ [][DimacsNext]_vars

\* C13: for every Formula F built through either constructor (from DIMACS
\* text, with or without ordinary comment lines, or from parts),
\* Formula(dimacs = str(F)) succeeds and equals F.
C13_RoundTripEqual ==
    call.op = "Formula(dimacs = str(F))" =>
        /\ result.exc = NoExc
        /\ Formula_eq(result.value, formula)

\* the part of C13 the code keeps: a Formula that holds no comment
RoundTripWithoutComments ==
    (call.op = "Formula(dimacs = str(F))" /\ formula.comments = <<>>) =>
        /\ result.exc = NoExc
        /\ Formula_eq(result.value, formula)
        /\ result.value = formula

\* some literal of the clauses lies outside -num_vars..num_vars
LiteralOutOfRange(clauses, num_vars) ==
    \E c \in DOMAIN clauses : \E j \in DOMAIN clauses[c] :
        abs(clauses[c][j]) > num_vars

\* C20: parsing DIMACS text in which some clause holds a literal l with
\* |l| > N fails with an error instead of returning a Formula, and no
\* Formula is produced whose occurrence index records a clause under a
\* literal the clause does not hold.
C20_OutOfRangeLiteralRejected ==
    (call.op = "Formula" /\ call.by = "dimacs") =>
        /\ LiteralOutOfRange(call.clauses, call.num_vars) => result.exc # NoExc
        /\ result.exc = NoExc =>
              \A i \in DOMAIN result.value.occurrences :
                  \A k \in DOMAIN result.value.occurrences[i] :
                      LET c == result.value.occurrences[i][k]
                      IN  \E j \in DOMAIN result.value.clauses[c] :
                              result.value.clauses[c][j] = i - result.value.num_vars

\* the part of C20 the code keeps: a literal above N, or below -(3N + 1)
LiteralBeyondListRejected ==
    (call.op = "Formula" /\ call.by = "dimacs"
        /\ \E c \in DOMAIN call.clauses : \E j \in DOMAIN call.clauses[c] :
              \/ call.clauses[c][j] > call.num_vars
              \/ call.clauses[c][j] < -(3 * call.num_vars + 1)) =>
        result.exc = "IndexError"

\* ============================================================== Assignment
\* value_check('var_index', var_index, strict_positive = ..., less_than_n = ...)
\* of get_value: an out-of-range variable index is a precondition failure
value_check_var_index(a, var_index) == var_index > 0 /\ var_index <= a.num_vars

\* self[var_index]: __getitem__ -> get_value; the check runs under __debug__,
\* then self.atoms[var_index - 1] is read as Python reads a list
Assignment_getitem(a, var_index, debug) ==
    IF debug /\ ~value_check_var_index(a, var_index)
    THEN [exc |-> "value_check", value |-> FALSE]
    ELSE IF IndexError(var_index - 1, Len(a.atoms))
    THEN [exc |-> "IndexError", value |-> FALSE]
    ELSE [exc |-> NoExc, value |-> a.atoms[PyIndex(var_index - 1, Len(a.atoms)) + 1]]

\* for i in range(0, self.num_vars): the first and the last index
HammingRange(a) == <<0, a.num_vars - 1>>

RECURSIVE HammingLoop(_, _, _, _, _, _)
\* dist += 1 if self[i] != assgn[i] else 0
HammingLoop(a, assgn, debug, i, to, dist) ==
    IF i > to THEN [exc |-> NoExc, value |-> dist]
    ELSE LET x == Assignment_getitem(a, i, debug)
             y == Assignment_getitem(assgn, i, debug)
         IN  IF x.exc # NoExc THEN [exc |-> x.exc, value |-> dist]
             ELSE IF y.exc # NoExc THEN [exc |-> y.exc, value |-> dist]
             ELSE HammingLoop(a, assgn, debug, i + 1, to,
                              dist + (IF x.value # y.value THEN 1 ELSE 0))

\* Assignment.hamming_dist(assgn)
hamming_dist(a, assgn, debug) ==
    IF debug /\ assgn.num_vars # a.num_vars
    THEN [exc |-> "value_check", value |-> 0]
    ELSE HammingLoop(a, assgn, debug, HammingRange(a)[1], HammingRange(a)[2], 0)

\* ------------------------------------------- specification: one Assignment
\* Assignment(number, NumVars) for number up to three bits more than NumVars
MaxNumber == 2 ^ (NumVars + 3) - 1

AssignInit ==
    /\ kind = "none" /\ formula = <<>> /\ falselist = <<>>
    /\ sb = <<>> /\ exc = NoExc /\ steps = <<>> /\ last = 0
    /\ pre = <<>> /\ twice = FALSE /\ back = <<>>
    /\ \E debug \in BOOLEAN :
          env = [debug |-> debug, rng |-> <<"os", 0>>, tape |-> <<>>]
    /\ \E number \in 0..MaxNumber :
          /\ assignment = Assignment_init(number, NumVars)
          /\ call = [op |-> "Assignment", number |-> number]
    /\ result = NoResult

unassigned == <<kind, formula, falselist, sb, exc, steps, last, pre, twice, back, env>>

\* assignment.flip(var_index)
AssignFlip(var_index) ==
    /\ assignment' = Assignment_flip(assignment, var_index)
    /\ call' = [op |-> "flip", var_index |-> var_index]
    /\ result' = NoResult
    /\ UNCHANGED unassigned

\* assignment.hamming_dist(Assignment(number, NumVars))
AssignHamming(number) ==
    LET assgn == Assignment_init(number, NumVars)
    IN  /\ result' = hamming_dist(assignment, assgn, env.debug)
        /\ call' = [op |-> "hamming_dist", assgn |-> assgn]
        /\ UNCHANGED assignment
        /\ UNCHANGED unassigned

\* str(assignment)
AssignStr ==
    /\ result' = [exc |-> NoExc, value |-> Assignment_str(assignment)]
    /\ call' = [op |-> "str"]
    /\ UNCHANGED assignment
    /\ UNCHANGED unassigned

AssignNext ==
    \/ \E var_index \in 1..NumVars : AssignFlip(var_index)
    \/ \E number \in 0..MaxNumber : AssignHamming(number)
    \/ AssignStr

AssignSpec == AssignInit /\ [][AssignNext]_vars

\* C14: for any two Assignments a and b of equal width N, a.hamming_dist(b)
\* returns the number of variables i in 1..N with a[i] # b[i].
C14_HammingCountsDifferingVariables ==
    (call.op = "hamming_dist"
        /\ Len(assignment.atoms) = NumVars /\ Len(call.assgn.atoms) = NumVars) =>
        /\ result.exc = NoExc
        /\ result.value =
              Cardinality({i \in 1..NumVars :
                  get_value(assignment, i) # get_value(call.assgn, i)})

\* what the code keeps of C14: without __debug__ and with both lists of
\* length N the count is right
HammingRightWithoutDebug ==
    (call.op = "hamming_dist" /\ ~env.debug
        /\ Len(assignment.atoms) = NumVars /\ Len(call.assgn.atoms) = NumVars) =>
        /\ result.exc = NoExc
        /\ result.value =
              Cardinality({i \in 1..NumVars :
                  get_value(assignment, i) # get_value(call.assgn, i)})

\* under __debug__ every call ends in the precondition failure of self[0]
HammingFailsUnderDebug ==
    (call.op = "hamming_dist" /\ env.debug) => result.exc = "value_check"

\* C15: for every Assignment created by Assignment(number, N) with any
\* non-negative number, and after any sequence of flips, the number of
\* stored atoms is exactly N.
C15_AtomsLengthIsNumVars == Len(assignment.atoms) = assignment.num_vars

\* what the code keeps of C15: at least N atoms, exactly N for number < 2^N,
\* and flip never changes the length
AtomsLengthKept ==
    /\ Len(assignment.atoms) >= assignment.num_vars
    /\ Len(assignment.atoms) > assignment.num_vars => Len(assignment.atoms) <= NumVars + 3

\* the integer whose bit i (LSB first) is atoms[i + 1]
BitsValue(atoms) ==
    CHOOSE n \in 0..(2 ^ Len(atoms) - 1) :
        \A i \in DOMAIN atoms : ((n \div 2 ^ (i - 1)) % 2 = 1) <=> atoms[i]

\* C16: for every Assignment a, str(a) is the hexadecimal literal of the
\* integer whose bit i (LSB first) is the stored a[i+1], and
\* Assignment(int(str(a), 16), N) has the value of a on every variable; and
\* integer_from_atoms(atoms_from_integer(n)) = n for the n it was made from.
C16_StrIsHexOfBits ==
    /\ call.op = "str" =>
          /\ SubSeq(result.value, 1, 2) = <<"0", "x">>
          /\ \A k \in 3..Len(result.value) : IsHexDigit(result.value[k])
          /\ int16(result.value) = BitsValue(assignment.atoms)
          /\ LET b == Assignment_init(int16(result.value), assignment.num_vars)
             IN  \A v \in 1..assignment.num_vars :
                     get_value(b, v) = get_value(assignment, v)
    /\ call.op = "Assignment" =>
          integer_from_atoms(atoms_from_integer(call.number)) = call.number

W16_StrOfWideAssignment ==
    /\ call.op = "str"
    /\ result.value = <<"0", "x", "1", "a">>
    /\ Len(assignment.atoms) = NumVars + 3

\* =================================================== the occurrence index
\* C17: for every constructed Formula whose literals all satisfy
\* 1 <= |l| <= N and every literal l of -N..-1, 1..N: get_occurrences(l)
\* lists clause index c iff l is a literal of clauses[c], in ascending
\* order, and max_occs is the largest length of an occurrence list.
C17_OccurrencesIndexExact ==
    (formula # <<>> /\ ~LiteralOutOfRange(formula.clauses, formula.num_vars)) =>
        /\ formula.exc = NoExc
        /\ \A l \in ((-formula.num_vars)..formula.num_vars) \ {0} :
              LET occ == get_occurrences(formula, l)
              IN  /\ \A c \in DOMAIN formula.clauses :
                        (\E k \in DOMAIN occ : occ[k] = c)
                            <=> (\E j \in DOMAIN formula.clauses[c] :
                                    formula.clauses[c][j] = l)
                  /\ \A k \in DOMAIN occ : occ[k] \in DOMAIN formula.clauses
                  /\ \A k1, k2 \in DOMAIN occ : k1 < k2 => occ[k1] <= occ[k2]
        /\ \A i \in DOMAIN formula.occurrences :
              Len(formula.occurrences[i]) <= formula.max_occs
        /\ \E i \in DOMAIN formula.occurrences :
              Len(formula.occurrences[i]) = formula.max_occs

W17_LiteralInTwoClauses ==
    /\ formula # <<>> /\ formula.exc = NoExc
    /\ \E l \in ((-formula.num_vars)..formula.num_vars) \ {0} :
          /\ get_occurrences(formula, l) = <<0, 1>>
          /\ get_occurrences(formula, -l) = <<>>
    /\ formula.max_occs = 2

\* =============================================================== Falselist
\* --------------------------------------------- specification: one Falselist
\* the elements a Falselist is given: clause indices
Elems == 0..(MaxClauses + 1)

\* mutant: the last element is popped before elem is looked up
Falselist_remove_call_pop_first(fl, elem, debug) ==
    IF elem \notin DOMAIN fl.mapping
    THEN [exc |-> "KeyError", falselist |-> [fl EXCEPT !.lst = Pop(@)]]
    ELSE [exc |-> NoExc, falselist |-> Falselist_remove(fl, elem)]

\* falselist.remove(elem) as a call: the assert statement is compiled only
\* under __debug__; without it `idx = self.mapping[elem]` is the first
\* statement and raises KeyError for an absent elem
Falselist_remove_call(fl, elem, debug) ==
    IF debug /\ ~Falselist_remove_assert(fl, elem)
    THEN [exc |-> "AssertionError", falselist |-> fl]
    ELSE IF elem \notin DOMAIN fl.mapping
    THEN [exc |-> "KeyError", falselist |-> fl]
    ELSE [exc |-> NoExc, falselist |-> Falselist_remove(fl, elem)]

\* call.live: the elements added and not removed since
FlInit ==
    /\ kind = "none" /\ formula = <<>> /\ assignment = <<>>
    /\ sb = <<>> /\ exc = NoExc /\ steps = <<>> /\ last = 0
    /\ twice = FALSE /\ back = <<>>
    /\ \E debug \in BOOLEAN :
          env = [debug |-> debug, rng |-> <<"os", 0>>, tape |-> <<>>]
    /\ falselist = Falselist_init
    /\ pre = Falselist_init
    /\ call = [op |-> "Falselist", elem |-> None, live |-> {}]
    /\ result = NoResult

\* falselist.add(elem), elem not present
FlAdd(elem) ==
    /\ elem \notin call.live
    /\ falselist' = Falselist_add(falselist, elem)
    /\ pre' = falselist
    /\ call' = [op |-> "add", elem |-> elem, live |-> call.live \cup {elem}]
    /\ result' = NoResult
    /\ UNCHANGED <<kind, formula, assignment, sb, exc, steps, last, twice, back,
                   env>>

\* falselist.remove(elem), elem present or not
FlRemove(elem) ==
    LET r == Falselist_remove_call(falselist, elem, env.debug)
    IN  /\ falselist' = r.falselist
        /\ pre' = falselist
        /\ call' = [op |-> "remove", elem |-> elem,
                    live |-> IF r.exc = NoExc THEN call.live \ {elem} ELSE call.live]
        /\ result' = [exc |-> r.exc, value |-> <<>>]
        /\ UNCHANGED <<kind, formula, assignment, sb, exc, steps, last, twice,
                       back, env>>

FlNext == \E elem \in Elems : FlAdd(elem) \/ FlRemove(elem)

FlSpec == FlInit /\ [][FlNext]_vars

\* C18: after any sequence of add(x) with x not present and remove(x) with
\* x present, lst[mapping[x]] = x for every x in the set, len(lst) =
\* len(mapping), lst has no repeated element, and the set of elements is
\* the elements added minus the elements removed.
C18_FalselistConsistent ==
    /\ \A x \in DOMAIN falselist.mapping :
          /\ falselist.mapping[x] \in 0..(Len(falselist.lst) - 1)
          /\ falselist.lst[falselist.mapping[x] + 1] = x
    /\ Len(falselist.lst) = Cardinality(DOMAIN falselist.mapping)
    /\ \A i, j \in DOMAIN falselist.lst :
          i # j => falselist.lst[i] # falselist.lst[j]
    /\ FalseSet(falselist) = call.live
    /\ DOMAIN falselist.mapping = call.live

W18_RemovedFromTheMiddle ==
    /\ call.op = "remove" /\ result.exc = NoExc
    /\ Len(pre.lst) >= 3
    /\ pre.mapping[call.elem] < Len(pre.lst) - 1
    /\ falselist.lst[pre.mapping[call.elem] + 1] = pre.lst[Len(pre.lst)]

\* C21: remove(x) for an x that is not in the Falselist ends with an
\* exception (AssertionError where assert statements are compiled, that is
\* under __debug__) and leaves lst and mapping as they were.
C21_RemoveAbsentFails ==
    (call.op = "remove" /\ call.elem \notin DOMAIN pre.mapping) =>
        /\ result.exc # NoExc
        /\ env.debug => result.exc = "AssertionError"
        /\ falselist = pre

W21_RemoveAbsentFromNonEmpty ==
    /\ call.op = "remove" /\ call.elem \notin DOMAIN pre.mapping
    /\ env.debug /\ result.exc = "AssertionError"
    /\ Len(pre.lst) >= 2 /\ falselist = pre

\* remove(x) of an absent x where assert statements are stripped
RemoveAbsentWithoutAsserts ==
    (call.op = "remove" /\ call.elem \notin DOMAIN pre.mapping /\ ~env.debug) =>
        result.exc = "KeyError" /\ falselist = pre

\* ============================================ scoreboards on 2-CNF formulas
\* ------------------------------ specification: two clauses of two variables
\* the clauses of two literals on two different variables
PairClauses ==
    {c \in [1..2 -> Lits] : abs(c[1]) # abs(c[2])}

\* Formula(clauses = [c, d], num_vars = NumVars, ...)
PairFormulas ==
    {Formula_init([i \in 0..1 |-> IF i = 0 THEN c ELSE d], NumVars) :
        c \in PairClauses, d \in PairClauses}

PairInit ==
    /\ kind \in {"DiffScores", "Scores"}
    /\ formula \in PairFormulas
    /\ \E number \in 0..(2 ^ NumVars - 1) :
          LET o == Construct(kind, formula, Assignment_init(number, NumVars))
          IN  /\ assignment = o.assignment
              /\ falselist = o.falselist
              /\ sb = o.sb
              /\ exc = o.exc
              /\ steps = o.trace
              /\ pre = [assignment |-> o.assignment, falselist |-> o.falselist,
                        sb |-> o.sb]
              /\ back = [assignment |-> o.assignment, falselist |-> o.falselist,
                         sb |-> o.sb]
    /\ last = 0
    /\ twice = FALSE
    /\ env = [debug |-> TRUE, rng |-> <<"os", 0>>, tape |-> <<>>]
    /\ call = NoCall
    /\ result = NoResult

PairSpec == PairInit /\ [][Next]_vars

\* scenario S2: DiffScores just constructed on F = {(+1,+2), (-1,+2)} with
\* a[1] = True, a[2] = False
ScenarioS2 ==
    /\ kind = "DiffScores" /\ last = 0
    /\ formula.clauses = [i \in 0..1 |-> IF i = 0 THEN <<1, 2>> ELSE <<-1, 2>>]
    /\ get_value(assignment, 1) /\ ~get_value(assignment, 2)

\* C19 as stated: in scenario S2, num_true_lit = [1,0], crit_var[0] = 1,
\* Falselist = {1}, score[1] = 0, score[2] = 2, best_score = 2 and
\* buckets[2] = {2}.
C19_ScenarioS2AsStated ==
    ScenarioS2 =>
        /\ sb.num_true_lit = [i \in 0..1 |-> IF i = 0 THEN 1 ELSE 0]
        /\ sb.crit_var[0] = 1
        /\ FalseSet(falselist) = {1}
        /\ sb.score[1] = 0 /\ sb.score[2] = 2
        /\ sb.best_score = 2
        /\ sb.buckets[2] = {2}

\* C19 as amended: in scenario S2, num_true_lit = [1,0], crit_var[0] = 1,
\* Falselist = {1}, score[1] = 0, score[2] = 1, best_score = 1,
\* buckets[1] = {2} and buckets[2] is empty.
C19_ScenarioS2 ==
    ScenarioS2 =>
        /\ sb.num_true_lit = [i \in 0..1 |-> IF i = 0 THEN 1 ELSE 0]
        /\ sb.crit_var[0] = 1
        /\ FalseSet(falselist) = {1}
        /\ sb.score[1] = 0 /\ sb.score[2] = 1
        /\ sb.best_score = 1
        /\ sb.buckets[1] = {2}
        /\ sb.buckets[2] = {}

W19_ScenarioS2Constructed ==
    /\ ScenarioS2
    /\ falselist.lst = <<1>>
    /\ DiffScores_get_best_bucket(sb) = <<1, {2}>>

\* ------------------------------------------------------- the static window
\* range(-formula.max_occs, formula.max_occs + 1) in DiffScores,
\* range(0, formula.max_occs + 1) in Scores
Window ==
    IF kind = "DiffScores"
    THEN (-formula.max_occs)..formula.max_occs
    ELSE 0..formula.max_occs

\* C23: after construction and after every completed flip, every score
\* lies inside the static window and every bucket allocated outside the
\* window is empty (formulas without repeated variable).
C23_ScoresInsideWindow ==
    (Completed /\ NoRepeatedVariable(formula)) =>
        /\ \A v \in 1..formula.num_vars : BoardScores(sb)[v] \in Window
        /\ \A k \in (DOMAIN sb.buckets) \ Window : sb.buckets[k] = {}

W23_BufferBucketLeftEmpty ==
    /\ Completed /\ NoRepeatedVariable(formula) /\ last # 0
    /\ \E k \in (DOMAIN sb.buckets) \ Window : sb.buckets[k] = {}
    /\ \E v \in 1..formula.num_vars : abs(BoardScores(sb)[v]) = formula.max_occs

\* ======================================= scoreboards on unit-clause formulas
\* ------------------- specification: MaxClauses + 2 clauses of one literal
\* Formula(clauses = [[l0], [l1], ...], num_vars = NumVars, ...); the
\* scores do not depend on the order of the clauses, which are listed by
\* rising literal
UnitFormulas ==
    {Formula_init([i \in 0..(MaxClauses + 1) |-> <<lits[i]>>], NumVars) :
        lits \in {l \in [0..(MaxClauses + 1) -> Lits] :
                    \A i \in 0..MaxClauses : l[i] <= l[i + 1]}}

UnitInit ==
    /\ kind \in {"DiffScores", "Scores"}
    /\ formula \in UnitFormulas
    /\ \E number \in 0..(2 ^ NumVars - 1) :
          LET o == Construct(kind, formula, Assignment_init(number, NumVars))
          IN  /\ assignment = o.assignment
              /\ falselist = o.falselist
              /\ sb = o.sb
              /\ exc = o.exc
              /\ steps = o.trace
              /\ pre = [assignment |-> o.assignment, falselist |-> o.falselist,
                        sb |-> o.sb]
              /\ back = [assignment |-> o.assignment, falselist |-> o.falselist,
                         sb |-> o.sb]
    /\ last = 0
    /\ twice = FALSE
    /\ env = [debug |-> TRUE, rng |-> <<"os", 0>>, tape |-> <<>>]
    /\ call = NoCall
    /\ result = NoResult

UnitSpec == UnitInit /\ [][Next]_vars

\* the window widened by d on each side a score can leave it
Widened(d) ==
    IF kind = "DiffScores"
    THEN (-formula.max_occs - d)..(formula.max_occs + d)
    ELSE 0..(formula.max_occs + d)

SharesClause(v, w) ==
    \E c \in DOMAIN formula.clauses : Occurs(v, c) /\ Occurs(w, c)

\* C26: for both scoreboards, flip(v) changes the assignment only at v,
\* leaves num_true_lit[c] and crit_var[c] of every clause c without v as
\* they were, leaves those clauses' Falselist membership as it was, and
\* leaves score[w] as it was for every variable w sharing no clause with v.
C26_FlipFrame ==
    last # 0 =>
        /\ \A w \in 1..formula.num_vars :
              get_value(assignment, w) = get_value(pre.assignment, w) <=> w # last
        /\ \A c \in DOMAIN formula.clauses :
              ~Occurs(last, c) =>
                  /\ sb.num_true_lit[c] = pre.sb.num_true_lit[c]
                  /\ sb.crit_var[c] = pre.sb.crit_var[c]
                  /\ InFalselist(falselist, c) <=> InFalselist(pre.falselist, c)
                  /\ c \in DOMAIN falselist.mapping
                        <=> c \in DOMAIN pre.falselist.mapping
        /\ \A w \in 1..formula.num_vars :
              ~SharesClause(last, w) => BoardScores(sb)[w] = BoardScores(pre.sb)[w]

\* a false clause without v was moved inside lst by the flip, and a variable
\* outside v's clauses keeps a non-zero score
W26_UntouchedClauseMovedInList ==
    /\ Completed /\ last # 0
    /\ \E c \in DOMAIN formula.clauses :
          /\ ~Occurs(last, c)
          /\ c \in DOMAIN falselist.mapping /\ c \in DOMAIN pre.falselist.mapping
          /\ falselist.mapping[c] # pre.falselist.mapping[c]
    /\ \E w \in 1..formula.num_vars :
          ~SharesClause(last, w) /\ BoardScores(sb)[w] # 0
    /\ BoardScores(sb)[last] # BoardScores(pre.sb)[last]

\* ------------------------------------------------- the same variable twice
\* the scores whose bucket has a member, in board
NonEmptyBuckets(board) == {k \in DOMAIN board.buckets : board.buckets[k] # {}}

\* C27: for both scoreboards, any variable v and any formula without
\* repeated variable, flip(v) twice in succession restores the assignment,
\* num_true_lit of every clause, every score, best_score, the contents of
\* every non-empty bucket, the Falselist as a set, and crit_var[c] of every
\* clause c with num_true_lit[c] = 1.
C27_FlipTwiceRestores ==
    (twice /\ NoRepeatedVariable(formula)) =>
        /\ Completed
        /\ assignment.atoms = back.assignment.atoms
        /\ \A c \in DOMAIN formula.clauses :
              /\ sb.num_true_lit[c] = back.sb.num_true_lit[c]
              /\ sb.num_true_lit[c] = 1 => sb.crit_var[c] = back.sb.crit_var[c]
              /\ InFalselist(falselist, c) <=> InFalselist(back.falselist, c)
        /\ \A v \in 1..formula.num_vars :
              BoardScores(sb)[v] = BoardScores(back.sb)[v]
        /\ sb.best_score = back.sb.best_score
        /\ NonEmptyBuckets(sb) = NonEmptyBuckets(back.sb)
        /\ \A k \in NonEmptyBuckets(sb) : sb.buckets[k] = back.sb.buckets[k]

\* after the two flips a clause with two true literals names another
\* critical variable than before, and the Falselist is the same non-empty set
W27_StaleCritVarDiffers ==
    /\ twice /\ Completed /\ NoRepeatedVariable(formula)
    /\ \E c \in DOMAIN formula.clauses :
          /\ sb.num_true_lit[c] = 2
          /\ sb.crit_var[c] # back.sb.crit_var[c]
    /\ \E c \in DOMAIN formula.clauses : sb.num_true_lit[c] = 1
    /\ pre.sb.best_score # sb.best_score

=============================================================================
